---- MODULE Spec2Model ----
(***************************************************************************)
(* ATSpect: the upload/analysis orchestrator (src/pages/Upload.js), the    *)
(* remote access layer (src/lib/supabase.js) and the resilience utilities  *)
(* (utils/utils.js, here src/unnamed/part_003).                            *)
(*                                                                         *)
(* Several state machines share this module, each with its own            *)
(* specification:                                                          *)
(*   SpecRetry    retryWithBackoff and the remote-access wrappers on it    *)
(*   SpecTimeout  promiseWithTimeout                                       *)
(*   SpecBreaker  healthCheck and its circuit breaker                      *)
(*   SpecAnalyze  analyzeResumeWithPerplexity and STEP 5 / STEP 6 around it *)
(*   SpecDelete   resumeService.delete, the card's delete, the cleanup     *)
(*   SpecUploadFile  storageService.uploadFile                             *)
(*   SpecMonitor  connectionMonitor and its debounce timer                 *)
(*   Spec         the Upload view: handleAnalyze, handleCancel, unmount    *)
(*   SpecLive     Spec with runs one after another and calls that settle   *)
(* The variables of the machines a specification does not run stay parked. *)
(***************************************************************************)
EXTENDS Integers, Sequences, FiniteSets, TLC

VARIABLES
    \* ---- retryWithBackoff (utils.js) ----
    rMaxRetries,   \* the maxRetries argument
    rWrapped,      \* TRUE: fn is a remote-access wrapper (deleteFile, create, ...)
    rAttempt,      \* the loop variable attempt
    rPhase,        \* "loop" | "awaiting" | "sleeping" | "resolved" | "rejected" | "parked"
    rCalls,        \* the attempt numbers fn was invoked with, in order
    rThrown,       \* what each finished invocation of fn produced (value or error)
    rLastError,    \* the local lastError (None = undefined)
    rResult,       \* what the returned promise settled with (None while pending)
    rDelay,        \* the delay of the current sleep, in ms
    \* ---- promiseWithTimeout (supabase.js) ----
    tMs,           \* the ms argument
    tMessage,      \* the message argument
    tNow,          \* time since the call, in ms
    tP,            \* the wrapped promise: [state, value]
    tTimer,        \* the timer the call created: "pending" | "fired" | "cleared" | "parked"
    tRace,         \* the promise returned: [state, value]
    \* ---- healthCheck circuit breaker (supabase.js) ----
    cb,            \* healthCheck._circuitBreaker: [failures, lastFailure, isOpen]
    cbNow,         \* Date.now(), in ms
    cbInflight,    \* probes whose network call is in flight: kind -> count
    cbOpenedAt,    \* history: when the breaker last opened (None: not open since a reset)
    cbLast,        \* history: the probe started last: [kind, inWindow, network, result]
    cbOwnFailures, \* history, per probe kind: its own failures in a row (up to Threshold)
    cbWindowCall,  \* history: a probe started inside the open window called the network
    \* ---- the Upload view (pages/Upload.js) and the backend it writes to ----
    run,           \* the runs of handleAnalyze: resumeId -> its locals and position
    view,          \* React state: isProcessing, error, progress, currentStep, statusText
    mounted,       \* mountedRef.current
    controllerRef, \* uploadControllerRef.current: None, or the run whose controller it is
    aborted,       \* resumeId -> signal.aborted of that run's AbortController
    transactionState, \* the transactionState React state
    blobs,         \* the stored blobs: [path, bucket]
    rows,          \* the resumes table: resumeId -> None or the row
    pendingDeletes,\* blob deletions started without being awaited
    navigated,     \* where navigate() went (None: nowhere yet)
    redirectTimers,\* pending redirect timeouts
    lastSuccessfulUpload, \* the localStorage marker
    hist,          \* history, per run, for the properties
    \* ---- analyzeResumeWithPerplexity (perplexityService.js), STEP 5/6 ----
    aiAttempt,     \* the loop variable attempt
    aiPhase,       \* "idle" | "fetching" | "sleeping" | "resolved" | "rejected" | "parked"
    aiTimer,       \* the abort timer of the current call: "none" | "armed" | "cleared" | "fired"
    aiDelay,       \* the backoff delay being slept, in ms
    aiCalls,       \* what each request to the endpoint came to, in order
    aiThrown,      \* the error analyze rejected with (None: none)
    aiResult,      \* the analysisResult analyze resolved with (None: none)
    aiStep,        \* handleAnalyze: "step5" | "analyzing" | "saving" | "complete" | "failed"
    aiFeedback,    \* the feedback variable of STEP 5 (None: unassigned)
    aiUpdateRaised, \* updateFeedback of STEP 6 rejected
    \* ---- resumeService.delete, ResumeCard.handleDelete, cleanupFailedUpload ----
    dCaller,       \* who deletes: "card" | "cleanup" | "direct" | "parked"
    dId,           \* the id argument of delete(id)
    dState,        \* the state argument of cleanupFailedUpload
    dProp,         \* the resume the card shows (None: no card)
    dRow,          \* the row of the resumes table (None: no row)
    dBlobs,        \* the blobs stored
    dCardPc,       \* handleDelete: "confirm" | "delPdf" | "delImage" | "delRow" | ...
    dSvc,          \* delete(id): "idle" | "read" | "rowDelete" | "resolved" | "rejected"
    dResume,       \* delete(id): the record getById returned
    dFiles,        \* the deleteFile calls: "none" | "pending" | "ok" | "failed"
    dCleanup,      \* cleanupFailedUpload: "idle" | "awaiting" | "resolved" | "none"
    \* storageService.uploadFile
    ufFile,            \* the file argument: None, or Some of a File
    ufOptions,         \* skipHealthCheck, upsert, maxRetries
    ufPc,              \* called, health, uploading, sleeping, resolved, rejected
    ufAttempt,         \* attempt counter of retryWithBackoff
    ufCalls,           \* network calls made so far, in order
    ufThrown,          \* errors thrown by the attempts, in order
    ufResult,          \* the error uploadFile rejected with
    ufDelay,           \* the backoff delay being slept
    \* connectionMonitor
    cmIsOnline,        \* this.isOnline
    cmListeners,       \* this.listeners
    cmTimer,           \* this._debounceTimer: None, or Some of its deadline
    cmNow,             \* the time, in ms
    cmHist             \* browser events and notifyListeners calls, in order

retryVars   == << rMaxRetries, rWrapped, rAttempt, rPhase, rCalls, rThrown,
                  rLastError, rResult, rDelay >>
timeoutVars == << tMs, tMessage, tNow, tP, tTimer, tRace >>
breakerVars == << cb, cbNow, cbInflight, cbOpenedAt, cbLast, cbOwnFailures,
                  cbWindowCall >>

uploadVars  == << run, view, mounted, controllerRef, aborted, transactionState,
                  blobs, rows, pendingDeletes, navigated, redirectTimers,
                  lastSuccessfulUpload, hist >>

analyzeVars == << aiAttempt, aiPhase, aiTimer, aiDelay, aiCalls, aiThrown, aiResult,
                  aiStep, aiFeedback, aiUpdateRaised >>

deleteVars ==
    << dCaller, dId, dState, dProp, dRow, dBlobs, dCardPc, dSvc, dResume,
       dFiles, dCleanup >>

uploadFileVars ==
    << ufFile, ufOptions, ufPc, ufAttempt, ufCalls, ufThrown, ufResult,
       ufDelay >>

monitorVars == << cmIsOnline, cmListeners, cmTimer, cmNow, cmHist >>

vars ==
    << retryVars, timeoutVars, breakerVars, uploadVars, analyzeVars,
       deleteVars, uploadFileVars, monitorVars >>

notRetry ==
    << timeoutVars, breakerVars, uploadVars, analyzeVars, deleteVars,
       uploadFileVars, monitorVars >>
notTimeout ==
    << retryVars, breakerVars, uploadVars, analyzeVars, deleteVars,
       uploadFileVars, monitorVars >>
notBreaker ==
    << retryVars, timeoutVars, uploadVars, analyzeVars, deleteVars,
       uploadFileVars, monitorVars >>
notUpload ==
    << retryVars, timeoutVars, breakerVars, analyzeVars, deleteVars,
       uploadFileVars, monitorVars >>
notAnalyze ==
    << retryVars, timeoutVars, breakerVars, uploadVars, deleteVars,
       uploadFileVars, monitorVars >>
notDelete ==
    << retryVars, timeoutVars, breakerVars, uploadVars, analyzeVars,
       uploadFileVars, monitorVars >>
notUploadFile ==
    << retryVars, timeoutVars, breakerVars, uploadVars, analyzeVars,
       deleteVars, monitorVars >>
notMonitor ==
    << retryVars, timeoutVars, breakerVars, uploadVars, analyzeVars,
       deleteVars, uploadFileVars >>

\* JavaScript's undefined / null, and a present value.
None == << >>
Some(x) == << x >>

Min(a, b) == IF a <= b THEN a ELSE b

RECURSIVE Pow(_, _)
Pow(b, e) == IF e = 0 THEN 1 ELSE b * Pow(b, e - 1)

(***************************************************************************)
(* Model bounds.                                                           *)
(***************************************************************************)
MaxRetriesBound == 3     \* maxRetries arguments tried: 0..MaxRetriesBound
MaxClockSteps   == 4     \* clock steps of the promiseWithTimeout machine
MaxBreakerSteps == 5     \* clock steps of the circuit-breaker machine
MaxInflight     == 2     \* probes in flight at once
MaxAttempts     == 2     \* runs of handleAnalyze on one mounted view
MaxFailedDeletes == 1    \* delete calls that fail (a run whose deletes failed counts once)

(***************************************************************************)
(* Errors.  A message is the sequence of its words; String.includes of a   *)
(* keyword is membership of the keyword among the words.                   *)
(***************************************************************************)
ErrorMessages ==
    { << "Database", "insert", "timeout" >>,
      << "Network", "error" >>,
      << "Bad", "Gateway" >>,
      << "Permission", "denied" >>,
      << "Resume", "not", "found" >>,
      << "File", "already", "exists" >> }

\* String.prototype.toLowerCase on the words that occur.
LowerWord(w) ==
    CASE w = "Database"   -> "database"
      [] w = "Network"    -> "network"
      [] w = "Bad"        -> "bad"
      [] w = "Gateway"    -> "gateway"
      [] w = "Permission" -> "permission"
      [] w = "Resume"     -> "resume"
      [] w = "File"       -> "file"
      [] OTHER            -> w

toLowerCase(message) == [ i \in 1..Len(message) |-> LowerWord(message[i]) ]

\* String.prototype.includes: keyword occurs as consecutive words of message.
includes(message, keyword) ==
    \E s \in 0..(Len(message) - Len(keyword)) :
        \A j \in 1..Len(keyword) : message[s + j] = keyword[j]

\* utils.js isRetryableError: the keyword list.
retryableErrors ==
    { << "timeout" >>, << "network" >>, << "fetch" >>, << "connection" >>,
      << "service", "temporarily", "unavailable" >>,
      << "internal", "server", "error" >>,
      << "bad", "gateway" >>,
      << "service", "unavailable" >>,
      << "gateway", "timeout" >> }

isRetryableError(error) ==
    LET errorMessage == toLowerCase(error.message) IN
      \E keyword \in retryableErrors : includes(errorMessage, keyword)

\* utils.js createError: a new Error object (a new identity) with a code.
createError(message, code, id) ==
    [ id |-> id, message |-> message, code |-> code ]

\* A raw failure of the underlying call made by attempt n.
RawError(message, n) == [ id |-> << "raw", n >>, message |-> message, code |-> "none" ]

(***************************************************************************)
(* retryWithBackoff(fn, maxRetries, baseDelay, maxDelay, backoffFactor)    *)
(***************************************************************************)
BaseDelay     == 1000
MaxDelay      == 10000
BackoffFactor == 2
Jitters       == { 0, 500, 999 }    \* Math.random() * 1000

BackoffDelay(attempt, jitter) ==
    Min(BaseDelay * Pow(BackoffFactor, attempt - 1) + jitter, MaxDelay)

\* The catch block of the remote-access wrappers: a non-retryable error is
\* rethrown as it is, a retryable one is rethrown wrapped in a new error.
WrapperCatch(err, attempt) ==
    IF ~isRetryableError(err)
    THEN err
    ELSE createError(<< "Attempt", "failed:" >> \o err.message, "RETRY_FAILED",
                     << "wrapped", attempt >>)

\* What fn(attempt) throws when its underlying call fails with raw error err.
FnThrows(wrapped, err, attempt) ==
    IF wrapped THEN WrapperCatch(err, attempt) ELSE err

RetryInit ==
    /\ rMaxRetries \in 0..MaxRetriesBound
    /\ rWrapped \in BOOLEAN
    /\ rAttempt = 1
    /\ rPhase = "loop"
    /\ rCalls = << >>
    /\ rThrown = << >>
    /\ rLastError = None
    /\ rResult = None
    /\ rDelay = 0

RetryParked ==
    /\ rMaxRetries = 0
    /\ rWrapped = FALSE
    /\ rAttempt = 0
    /\ rPhase = "parked"
    /\ rCalls = << >>
    /\ rThrown = << >>
    /\ rLastError = None
    /\ rResult = None
    /\ rDelay = 0

\* for (attempt <= maxRetries) { ... await fn(attempt)
RetryInvoke ==
    /\ rPhase = "loop"
    /\ rAttempt <= rMaxRetries
    /\ rCalls' = Append(rCalls, rAttempt)
    /\ rPhase' = "awaiting"
    /\ UNCHANGED << rMaxRetries, rWrapped, rAttempt, rThrown, rLastError,
                    rResult, rDelay >>
    /\ UNCHANGED notRetry

\* The loop condition fails: throw lastError (after the loop).
RetryLoopExit ==
    /\ rPhase = "loop"
    /\ rAttempt > rMaxRetries
    /\ rPhase' = "rejected"
    /\ rResult' = Some([ kind |-> "error", error |-> rLastError ])
    /\ UNCHANGED << rMaxRetries, rWrapped, rAttempt, rCalls, rThrown,
                    rLastError, rDelay >>
    /\ UNCHANGED notRetry

\* return await fn(attempt): fn resolved with value v.
RetryFnResolves ==
    /\ rPhase = "awaiting"
    /\ \E v \in { "v1", "v2" } :
         /\ rThrown' = Append(rThrown, [ kind |-> "value", value |-> v ])
         /\ rResult' = Some([ kind |-> "value", value |-> v ])
    /\ rPhase' = "resolved"
    /\ UNCHANGED << rMaxRetries, rWrapped, rAttempt, rCalls, rLastError, rDelay >>
    /\ UNCHANGED notRetry

\* Mutant of RetryCatch: gives up one attempt early (attempt === maxRetries - 1).
RetryCatchOffByOne(err, jitter) ==
    /\ rLastError' = Some(err)
    /\ IF rAttempt >= rMaxRetries - 1
       THEN /\ rPhase' = "rejected"
            /\ rResult' = Some([ kind |-> "error", error |-> Some(err) ])
            /\ rDelay' = rDelay
       ELSE /\ rPhase' = "sleeping"
            /\ rDelay' = BackoffDelay(rAttempt, jitter)
            /\ rResult' = rResult

\* Mutant of RetryCatch: the final error is wrapped in a new error object.
RetryCatchWraps(err, jitter) ==
    /\ rLastError' = Some(err)
    /\ IF rAttempt = rMaxRetries
       THEN /\ rPhase' = "rejected"
            /\ rResult' = Some([ kind |-> "error",
                                 error |-> Some(createError(<< "Retries", "exhausted:" >>
                                                              \o err.message,
                                                            "RETRY_EXHAUSTED",
                                                            << "final", rAttempt >>)) ])
            /\ rDelay' = rDelay
       ELSE /\ rPhase' = "sleeping"
            /\ rDelay' = BackoffDelay(rAttempt, jitter)
            /\ rResult' = rResult

\* What the catch block does once fn(attempt) has thrown err.
RetryCatch(err, jitter) ==
    /\ rLastError' = Some(err)
    /\ IF rAttempt = rMaxRetries
       THEN /\ rPhase' = "rejected"
            /\ rResult' = Some([ kind |-> "error", error |-> Some(err) ])
            /\ rDelay' = rDelay
       ELSE /\ rPhase' = "sleeping"
            /\ rDelay' = BackoffDelay(rAttempt, jitter)
            /\ rResult' = rResult

\* fn(attempt) rejected.
RetryFnRejects ==
    /\ rPhase = "awaiting"
    /\ \E m \in ErrorMessages, jitter \in Jitters :
         LET err == FnThrows(rWrapped, RawError(m, rAttempt), rAttempt) IN
           /\ rThrown' = Append(rThrown, [ kind |-> "error", error |-> err ])
           /\ RetryCatch(err, jitter)
    /\ UNCHANGED << rMaxRetries, rWrapped, rAttempt, rCalls >>
    /\ UNCHANGED notRetry

\* await sleep(delay) is over: attempt++.
RetryWake ==
    /\ rPhase = "sleeping"
    /\ rAttempt' = rAttempt + 1
    /\ rPhase' = "loop"
    /\ UNCHANGED << rMaxRetries, rWrapped, rCalls, rThrown, rLastError,
                    rResult, rDelay >>
    /\ UNCHANGED notRetry

RetryNext ==
    \/ RetryInvoke
    \/ RetryLoopExit
    \/ RetryFnResolves
    \/ RetryFnRejects
    \/ RetryWake

(***************************************************************************)
(* promiseWithTimeout(promise, ms, message)                                *)
(***************************************************************************)
TimeoutStep == 1000      \* the clock advances in steps of this many ms
TimeoutMsValues == { TimeoutStep, 2 * TimeoutStep, 3 * TimeoutStep }
TimeoutMessages == { "Operation timed out", "Health check timeout" }
Pending == [ state |-> "pending", value |-> "none" ]

\* Mutant of ClearTimeout: the finally callback does not clear the timer.
ClearTimeoutForgotten(timer) == timer

\* .finally(() => clearTimeout(timeoutId)): a pending timer is cancelled; on a
\* timer that has fired clearTimeout does nothing.
ClearTimeout(timer) == IF timer = "pending" THEN "cleared" ELSE timer

\* Promise.race settles with the first settlement and ignores later ones.
RaceSettle(race, outcome) == IF race.state = "pending" THEN outcome ELSE race

TimeoutInit ==
    /\ tMs \in TimeoutMsValues
    /\ tMessage \in TimeoutMessages
    /\ tNow = 0
    /\ tP = Pending
    /\ tTimer = "pending"
    /\ tRace = Pending

TimeoutParked ==
    /\ tMs = 0
    /\ tMessage = "none"
    /\ tNow = 0
    /\ tP = Pending
    /\ tTimer = "parked"
    /\ tRace = Pending

TimeoutTick ==
    /\ tTimer # "parked"
    /\ tNow < MaxClockSteps * TimeoutStep
    /\ tNow' = tNow + TimeoutStep
    /\ UNCHANGED << tMs, tMessage, tP, tTimer, tRace >>
    /\ UNCHANGED notTimeout

\* The wrapped promise settles; the race, if still pending, takes its outcome and
\* the finally callback runs in the same microtask drain.
TimeoutPSettles ==
    /\ tTimer # "parked"
    /\ tP.state = "pending"
    /\ \E outcome \in { [ state |-> "fulfilled", value |-> "data" ],
                        [ state |-> "fulfilled", value |-> "empty" ],
                        [ state |-> "rejected", value |-> "fetch failed" ] } :
         /\ tP' = outcome
         /\ tRace' = RaceSettle(tRace, outcome)
    /\ tTimer' = IF tRace.state = "pending" THEN ClearTimeout(tTimer) ELSE tTimer
    /\ UNCHANGED << tMs, tMessage, tNow >>
    /\ UNCHANGED notTimeout

\* The timer callback: reject(new Error(message)); then the finally callback.
TimeoutTimerFires ==
    /\ tTimer = "pending"
    /\ tNow >= tMs
    /\ tRace' = RaceSettle(tRace, [ state |-> "rejected", value |-> tMessage ])
    /\ tTimer' = IF tRace.state = "pending" THEN ClearTimeout("fired") ELSE "fired"
    /\ UNCHANGED << tMs, tMessage, tNow, tP >>
    /\ UNCHANGED notTimeout

TimeoutNext ==
    \/ TimeoutTick
    \/ TimeoutPSettles
    \/ TimeoutTimerFires

(***************************************************************************)
(* healthCheck: one circuit breaker, used by the database probe and by the *)
(* storage probe.                                                          *)
(***************************************************************************)
Threshold == 3          \* _circuitBreaker.threshold
ResetTime == 30000      \* _circuitBreaker.resetTime, ms
BreakerStep == ResetTime \div 2    \* the clock advances in steps of this many ms
ProbeKinds == { "database", "storage" }

\* healthCheck._checkCircuit at time now: the breaker afterwards, and the result
\* (TRUE: circuit closed, the probe goes on to its network call).
checkCircuit(b, now) ==
    IF b.failures >= Threshold
    THEN IF now - b.lastFailure[1] > ResetTime
         THEN [ cb |-> [ b EXCEPT !.failures = 0, !.isOpen = FALSE ], closed |-> TRUE ]
         ELSE [ cb |-> [ b EXCEPT !.isOpen = TRUE ], closed |-> FALSE ]
    ELSE [ cb |-> b, closed |-> TRUE ]

\* healthCheck._recordFailure at time now.
recordFailure(b, now) ==
    [ failures    |-> b.failures + 1,
      lastFailure |-> Some(now),
      isOpen      |-> IF b.failures + 1 >= Threshold THEN TRUE ELSE b.isOpen ]

\* Mutant of recordSuccess: the counter is cleared, the circuit stays as it is.
recordSuccessKeepsOpen(b) == [ b EXCEPT !.failures = 0 ]

\* healthCheck._recordSuccess.
recordSuccess(b) == [ b EXCEPT !.failures = 0, !.isOpen = FALSE ]

\* healthCheck.resetCircuitBreaker.
resetCircuitBreaker(b) == [ failures |-> 0, lastFailure |-> None, isOpen |-> FALSE ]

BreakerClosedInit == [ failures |-> 0, lastFailure |-> None, isOpen |-> FALSE ]

BreakerInit ==
    /\ cb = BreakerClosedInit
    /\ cbNow = 0
    /\ cbInflight = [ k \in ProbeKinds |-> 0 ]
    /\ cbOpenedAt = None
    /\ cbLast = [ kind |-> "none", inWindow |-> FALSE, network |-> FALSE,
                  result |-> "none" ]
    /\ cbOwnFailures = [ k \in ProbeKinds |-> 0 ]
    /\ cbWindowCall = FALSE

BreakerParked ==
    /\ cb = BreakerClosedInit
    /\ cbNow = 0 - 1
    /\ cbInflight = [ k \in ProbeKinds |-> 0 ]
    /\ cbOpenedAt = None
    /\ cbLast = [ kind |-> "none", inWindow |-> FALSE, network |-> FALSE,
                  result |-> "none" ]
    /\ cbOwnFailures = [ k \in ProbeKinds |-> 0 ]
    /\ cbWindowCall = FALSE

InflightTotal(f) == f["database"] + f["storage"]

\* History: the probe starts after the breaker opened and no later than
\* ResetTime after that (no manual reset in between).
InOpenWindow(openedAt, now) ==
    /\ openedAt # None
    /\ now - openedAt[1] <= ResetTime

\* History kept by the circuit check: a reset by elapsed time ends the window.
OpenedAtAfterCheck(b, openedAt, now) ==
    IF b.failures >= Threshold /\ now - b.lastFailure[1] > ResetTime
    THEN None ELSE openedAt

\* History kept by the circuit check: a reset by elapsed time forgets the
\* failures of both kinds.
OwnFailuresAfterCheck(b, own, now) ==
    IF b.failures >= Threshold /\ now - b.lastFailure[1] > ResetTime
    THEN [ k \in ProbeKinds |-> 0 ] ELSE own

\* The synchronous start of testConnection / testStorageConnection: the circuit
\* check, then (circuit closed) the network call is issued and awaited.
ProbeStart(kind, b, inflight, openedAt, now) ==
    LET c == checkCircuit(b, now) IN
      [ cb       |-> c.cb,
        inflight |-> IF c.closed THEN [ inflight EXCEPT ![kind] = @ + 1 ] ELSE inflight,
        openedAt |-> OpenedAtAfterCheck(b, openedAt, now),
        last     |-> [ kind     |-> kind,
                       inWindow |-> InOpenWindow(openedAt, now),
                       network  |-> c.closed,
                       result   |-> IF c.closed THEN "pending" ELSE "unhealthy" ] ]

testConnection ==
    /\ cbNow >= 0
    /\ InflightTotal(cbInflight) < MaxInflight
    /\ LET s == ProbeStart("database", cb, cbInflight, cbOpenedAt, cbNow) IN
         /\ cb' = s.cb
         /\ cbOwnFailures' = OwnFailuresAfterCheck(cb, cbOwnFailures, cbNow)
         /\ cbInflight' = s.inflight
         /\ cbOpenedAt' = s.openedAt
         /\ cbLast' = s.last
         /\ cbWindowCall' = (cbWindowCall \/ (s.last.inWindow /\ s.last.network))
    /\ UNCHANGED cbNow
    /\ UNCHANGED notBreaker

testStorageConnection ==
    /\ cbNow >= 0
    /\ InflightTotal(cbInflight) < MaxInflight
    /\ LET s == ProbeStart("storage", cb, cbInflight, cbOpenedAt, cbNow) IN
         /\ cb' = s.cb
         /\ cbOwnFailures' = OwnFailuresAfterCheck(cb, cbOwnFailures, cbNow)
         /\ cbInflight' = s.inflight
         /\ cbOpenedAt' = s.openedAt
         /\ cbLast' = s.last
         /\ cbWindowCall' = (cbWindowCall \/ (s.last.inWindow /\ s.last.network))
    /\ UNCHANGED cbNow
    /\ UNCHANGED notBreaker

\* testAllConnections: both probes start in the same synchronous run.
testAllConnections ==
    /\ cbNow >= 0
    /\ InflightTotal(cbInflight) + 2 <= MaxInflight
    /\ LET s1 == ProbeStart("database", cb, cbInflight, cbOpenedAt, cbNow)
           s2 == ProbeStart("storage", s1.cb, s1.inflight, s1.openedAt, cbNow)
       IN
         /\ cb' = s2.cb
         /\ cbOwnFailures' =
                OwnFailuresAfterCheck(s1.cb, OwnFailuresAfterCheck(cb, cbOwnFailures, cbNow),
                                      cbNow)
         /\ cbInflight' = s2.inflight
         /\ cbOpenedAt' = s2.openedAt
         /\ cbLast' = s2.last
         /\ cbWindowCall' = (cbWindowCall \/ (s1.last.inWindow /\ s1.last.network)
                                          \/ (s2.last.inWindow /\ s2.last.network))
    /\ UNCHANGED cbNow
    /\ UNCHANGED notBreaker

\* A probe's network call comes back without error: _recordSuccess, return true.
ProbeSucceeds ==
    /\ \E kind \in ProbeKinds :
         /\ cbInflight[kind] > 0
         /\ cbInflight' = [ cbInflight EXCEPT ![kind] = @ - 1 ]
         /\ cbOwnFailures' = [ cbOwnFailures EXCEPT ![kind] = 0 ]
    /\ cb' = recordSuccess(cb)
    /\ cbLast' = [ cbLast EXCEPT !.result = IF @ = "pending" THEN "healthy" ELSE @ ]
    /\ UNCHANGED << cbNow, cbOpenedAt, cbWindowCall >>
    /\ UNCHANGED notBreaker

\* A probe's network call returns an error, throws, or hits its 5 s timeout:
\* _recordFailure, return false.
ProbeFails ==
    /\ \E kind \in ProbeKinds :
         /\ cbInflight[kind] > 0
         /\ cbInflight' = [ cbInflight EXCEPT ![kind] = @ - 1 ]
         /\ cbOwnFailures' = [ cbOwnFailures EXCEPT ![kind] = Min(@ + 1, Threshold) ]
    /\ cb' = recordFailure(cb, cbNow)
    /\ cbOpenedAt' = IF cb.failures + 1 = Threshold THEN Some(cbNow) ELSE cbOpenedAt
    /\ cbLast' = [ cbLast EXCEPT !.result = IF @ = "pending" THEN "unhealthy" ELSE @ ]
    /\ UNCHANGED << cbNow, cbWindowCall >>
    /\ UNCHANGED notBreaker

\* The "Refresh Status" button.
ManualReset ==
    /\ cbNow >= 0
    /\ cb # BreakerClosedInit
    /\ cb' = resetCircuitBreaker(cb)
    /\ cbOpenedAt' = None
    /\ cbOwnFailures' = [ k \in ProbeKinds |-> 0 ]
    /\ UNCHANGED << cbNow, cbInflight, cbLast, cbWindowCall >>
    /\ UNCHANGED notBreaker

BreakerTick ==
    /\ cbNow >= 0
    /\ cbNow < MaxBreakerSteps * BreakerStep
    /\ cbNow' = cbNow + BreakerStep
    /\ UNCHANGED << cb, cbInflight, cbOpenedAt, cbLast, cbOwnFailures, cbWindowCall >>
    /\ UNCHANGED notBreaker

BreakerNext ==
    \/ testConnection
    \/ testStorageConnection
    \/ testAllConnections
    \/ ProbeSucceeds
    \/ ProbeFails
    \/ ManualReset
    \/ BreakerTick

(***************************************************************************)
(* The Upload view (pages/Upload.js).                                      *)
(*                                                                         *)
(* A run of handleAnalyze is identified by the resumeId it generates       *)
(* (generateUUID: a new id per run), here 1..MaxAttempts.  The paths made  *)
(* by generateFilePath carry a timestamp and a random suffix: one new path *)
(* per call, here << resumeId, type >>.  Every await of handleAnalyze is a *)
(* point where other handlers of the view run; an action below is the code *)
(* from one await to the next.                                             *)
(***************************************************************************)
Attempts == 1..MaxAttempts

TotalSteps == 7          \* useState(7)

Categories == { "formatting", "content", "keywords", "experience", "skills" }

PdfPathOf(a)   == [ path |-> << a, "pdf" >>,   bucket |-> "resumes" ]
ImagePathOf(a) == [ path |-> << a, "image" >>, bucket |-> "resume-images" ]

\* The initial value of the transactionState state and of currentState.
EmptyTransaction ==
    [ resumeId |-> None, pdfPath |-> None, imagePath |-> None,
      dbRecordCreated |-> FALSE, filesUploaded |-> << >> ]

\* let currentState = { resumeId, ... } at the start of handleAnalyze.
NewTransaction(a) == [ EmptyTransaction EXCEPT !.resumeId = Some(a) ]

IdleRun ==
    [ pc |-> "idle", cs |-> EmptyTransaction, imagePath |-> None,
      feedback |-> None, step |-> 0, err |-> None, health |-> "none" ]

IdleView ==
    [ isProcessing |-> FALSE, error |-> "", progress |-> 0, currentStep |-> 0,
      statusText |-> "" ]

NoHistory ==
    [ cancelFired |-> FALSE, cancelStored |-> FALSE, afterCancel |-> { },
      previewRaised |-> "none", aiRaised |-> FALSE, createOk |-> FALSE,
      createRaised |-> FALSE, updateRaised |-> FALSE, cleanupDone |-> FALSE,
      delFailed |-> FALSE ]

InFlight == { "preflight", "extract", "uploadPdf", "convert", "uploadImage",
              "create", "analyze", "update", "cleanup" }

\* Math.round((step / totalSteps) * 100)
Percent(step) == (200 * step + TotalSteps) \div (2 * TotalSteps)

\* The progress tracker's callback (createProgressTracker(totalSteps, cb)).
OnProgress(v, isMounted, step, message) ==
    IF ~isMounted THEN v
    ELSE [ v EXCEPT !.currentStep = step, !.progress = Percent(step),
                    !.statusText = message ]

\* uploadControllerRef.current?.signal.aborted
SignalAborted(ref, ab) == ref # None /\ ab[ref[1]]

(***************************************************************************)
(* Errors the steps raise, and the text the catch block shows for them.    *)
(***************************************************************************)
ExtractRaise ==
    [ code |-> "none", message |-> << "Failed", "to", "extract", "text", "from", "PDF" >> ]
ExtractShort ==
    [ code |-> "PDF_TEXT_EXTRACTION_FAILED",
      message |-> << "Could", "not", "extract", "readable", "text", "from", "PDF." >> ]
UploadErrors ==
    { [ code |-> "none", message |-> << "Upload", "timeout", "after", "180000ms" >> ],
      [ code |-> "UPLOAD_FAILED",
        message |-> << "Upload", "failed:", "Authentication", "required" >> ] }
CreateErrors ==
    { [ code |-> "DB_CREATE_FAILED",
        message |-> << "Failed", "to", "create", "resume", "record:", "duplicate", "key" >> ] }
UpdateErrors ==
    { [ code |-> "DB_UPDATE_FAILED",
        message |-> << "Failed", "to", "update", "feedback:", "permission", "denied" >> ] }
UpdateNotFound ==
    [ code |-> "RESUME_NOT_FOUND", message |-> << "Resume", "not", "found", "for", "update" >> ]

\* err.code?.includes('DB_')
CodeIncludesDB(code) == code \in { "DB_CREATE_FAILED", "DB_UPDATE_FAILED" }

\* The "Enhanced error categorization" chain of the catch block.
ErrorText(err) ==
    IF err.code = "AUTH_REQUIRED" \/ includes(err.message, << "Authentication" >>)
    THEN "Authentication issue detected."
    ELSE IF err.code \in { "CONNECTIVITY_FAILED", "CONNECTION_FAILED" }
    THEN "Connection issues detected."
    ELSE IF err.code = "UPLOAD_TIMEOUT" \/ includes(err.message, << "timeout" >>)
    THEN "Upload timed out."
    ELSE IF err.code = "FILE_TOO_LARGE"
    THEN "File size too large."
    ELSE IF err.code = "PDF_TEXT_EXTRACTION_FAILED"
    THEN "Could not read your PDF."
    ELSE IF CodeIncludesDB(err.code)
    THEN "Database error occurred."
    ELSE "Upload failed"

IsAuthError(err) ==
    err.code = "AUTH_REQUIRED" \/ includes(err.message, << "Authentication" >>)

(***************************************************************************)
(* Feedback objects: overall_score, ats_score and, per category, the score *)
(* and the number of tips.                                                 *)
(***************************************************************************)
\* Mutant of FallbackFeedback: the placeholder has categories without tips.
FallbackFeedbackNoTips ==
    [ overall_score |-> 0, ats_score |-> 0,
      categories |-> [ c \in Categories |-> [ score |-> 0, tips |-> 0 ] ] ]

\* The "fallback feedback" literal of STEP 5.
FallbackFeedback ==
    [ overall_score |-> 0, ats_score |-> 0,
      categories |-> [ c \in Categories |-> [ score |-> 0, tips |-> 1 ] ] ]

\* What analyzeResumeWithPerplexity can resolve with: it checks only that
\* overall_score and categories are present.
AiFeedbacks ==
    { [ overall_score |-> 40, ats_score |-> 0,
        categories |-> [ c \in Categories |-> [ score |-> 40, tips |-> 0 ] ] ] }

(***************************************************************************)
(* cleanupFailedUpload(state)                                              *)
(***************************************************************************)
FilesOf(state) == { state.filesUploaded[i] : i \in 1..Len(state.filesUploaded) }

\* Mutant of CleanupRecordTask: the record is never part of the cleanup.
CleanupRecordTaskSkipped(state) == FALSE

\* if (state.dbRecordCreated && state.resumeId): resumeService.delete is a task.
CleanupRecordTask(state) == state.dbRecordCreated /\ state.resumeId # None

\* Mutant of CleanupFileTasks: only the blobs of the resumes bucket are deleted.
CleanupFileTasksPdfOnly(state) == { f \in FilesOf(state) : f.bucket = "resumes" }

\* One deleteFile task per entry of state.filesUploaded.
CleanupFileTasks(state) == FilesOf(state)

\* Mutant of HasCleanupTasks: the catch block always waits for a cleanup.
HasCleanupTasksAlways(state) == TRUE

\* cleanupTasks.length > 0
HasCleanupTasks(state) == CleanupRecordTask(state) \/ CleanupFileTasks(state) # { }

\* resumeService.delete(id) that succeeded: the row is gone and the deletion of
\* the blobs the row names has been started, not awaited.  (Deleting a blob that
\* is not stored changes nothing: such a deletion is not kept pending.)
RowBlobs(row) ==
    { [ path |-> row.resume_path[1], bucket |-> "resumes" ] }
      \cup (IF row.image_path = None THEN { }
            ELSE { [ path |-> row.image_path[1], bucket |-> "resume-images" ] })

(***************************************************************************)
(* History kept for the properties: what a run did after its controller    *)
(* was aborted by handleCancel.                                            *)
(***************************************************************************)
Mark(h, a, kinds) ==
    IF h[a].cancelFired THEN [ h EXCEPT ![a].afterCancel = @ \cup kinds ] ELSE h

ViewKinds(isMounted) == IF isMounted THEN { "view" } ELSE { }

UploadInit ==
    /\ run = [ a \in Attempts |-> IdleRun ]
    /\ view = IdleView
    /\ mounted = TRUE
    /\ controllerRef = None
    /\ aborted = [ a \in Attempts |-> FALSE ]
    /\ transactionState = EmptyTransaction
    /\ blobs = { }
    /\ rows = [ a \in Attempts |-> None ]
    /\ pendingDeletes = { }
    /\ navigated = None
    /\ redirectTimers = { }
    /\ lastSuccessfulUpload = None
    /\ hist = [ a \in Attempts |-> NoHistory ]

(***************************************************************************)
(* The shared tails of the steps of handleAnalyze.                         *)
(***************************************************************************)
\* handleAnalyze has returned: its locals are gone.  The way it ended and the
\* last value of currentState are kept for the properties.
Returned(r, how) == [ IdleRun EXCEPT !.pc = how, !.cs = r.cs ]

\* Mutant of Proceed: STEP 4 is skipped, the AI call follows the uploads.
ProceedSkippingCreate(a, r, v, h, nextPc, message, kinds) ==
    IF SignalAborted(controllerRef, aborted)
    THEN /\ run' = [ run EXCEPT ![a] = Returned(r, "cancelled") ]
         /\ view' = v
         /\ hist' = h
         /\ controllerRef' = None
    ELSE /\ run' = [ run EXCEPT ![a] =
                       [ r EXCEPT !.pc = IF nextPc = "create" THEN "analyze" ELSE nextPc,
                                  !.step = @ + 1 ] ]
         /\ view' = OnProgress(v, mounted, r.step + 1, message)
         /\ hist' = Mark(h, a, kinds \cup ViewKinds(mounted))
         /\ controllerRef' = controllerRef

\* catch: 'Upload cancelled' -> return; finally: uploadControllerRef.current = null.
\* Otherwise the next progressTracker.increment(message) and the next call.
\* r, v, h: the run, the view and the history as the step has left them so far.
Proceed(a, r, v, h, nextPc, message, kinds) ==
    IF SignalAborted(controllerRef, aborted)
    THEN /\ run' = [ run EXCEPT ![a] = Returned(r, "cancelled") ]
         /\ view' = v
         /\ hist' = h
         /\ controllerRef' = None
    ELSE /\ run' = [ run EXCEPT ![a] = [ r EXCEPT !.pc = nextPc, !.step = @ + 1 ] ]
         /\ view' = OnProgress(v, mounted, r.step + 1, message)
         /\ hist' = Mark(h, a, kinds \cup ViewKinds(mounted))
         /\ controllerRef' = controllerRef

\* Mutant of FailureFinish: the catch block does not call setIsProcessing(false).
FailureFinishKeepsProcessing(a, r, v, h, err) ==
    /\ run' = [ run EXCEPT ![a] = Returned(r, "failed") ]
    /\ controllerRef' = None
    /\ IF mounted
       THEN /\ view' = [ isProcessing |-> v.isProcessing, error |-> ErrorText(err),
                         progress |-> 0, currentStep |-> 0, statusText |-> "" ]
            /\ transactionState' = EmptyTransaction
            /\ redirectTimers' = IF IsAuthError(err)
                                 THEN redirectTimers \cup { << "auth", a >> }
                                 ELSE redirectTimers
            /\ hist' = Mark([ h EXCEPT ![a].cleanupDone = TRUE ], a, { "view", "error" })
       ELSE /\ view' = v
            /\ transactionState' = transactionState
            /\ redirectTimers' = redirectTimers
            /\ hist' = [ h EXCEPT ![a].cleanupDone = TRUE ]

\* The catch block after cleanupFailedUpload has returned, and the finally block.
FailureFinish(a, r, v, h, err) ==
    /\ run' = [ run EXCEPT ![a] = Returned(r, "failed") ]
    /\ controllerRef' = None
    /\ IF mounted
       THEN /\ view' = [ isProcessing |-> FALSE, error |-> ErrorText(err),
                         progress |-> 0, currentStep |-> 0, statusText |-> "" ]
            /\ transactionState' = EmptyTransaction
            /\ redirectTimers' = IF IsAuthError(err)
                                 THEN redirectTimers \cup { << "auth", a >> }
                                 ELSE redirectTimers
            /\ hist' = Mark([ h EXCEPT ![a].cleanupDone = TRUE ], a, { "view", "error" })
       ELSE /\ view' = v
            /\ transactionState' = transactionState
            /\ redirectTimers' = redirectTimers
            /\ hist' = [ h EXCEPT ![a].cleanupDone = TRUE ]

\* catch (err): await cleanupFailedUpload(currentState).  Without tasks the
\* cleanup returns at once and the catch block runs on.
Fail(a, r, v, h, err) ==
    IF HasCleanupTasks(r.cs)
    THEN /\ run' = [ run EXCEPT ![a] = [ r EXCEPT !.pc = "cleanup", !.err = Some(err) ] ]
         /\ view' = v
         /\ hist' = h
         /\ UNCHANGED << controllerRef, transactionState, redirectTimers >>
    ELSE FailureFinish(a, r, v, h, err)

(***************************************************************************)
(* handleSubmit / handleAnalyze                                            *)
(***************************************************************************)
\* The form is rendered only while !isProcessing.  handleAnalyze up to the await
\* of the pre-flight health probe.
Submit ==
    /\ mounted
    /\ ~view.isProcessing
    /\ \E a \in Attempts :
         /\ run[a].pc = "idle"
         /\ \A b \in Attempts : b < a => run[b].pc # "idle"
         /\ controllerRef' = Some(a)
         /\ aborted' = [ aborted EXCEPT ![a] = FALSE ]
         /\ run' = [ run EXCEPT ![a] = [ IdleRun EXCEPT !.pc = "preflight",
                                                          !.cs = NewTransaction(a) ] ]
         /\ view' = OnProgress([ view EXCEPT !.isProcessing = TRUE, !.error = "",
                                             !.progress = 0, !.currentStep = 0 ],
                               mounted, 0, "Performing pre-flight checks...")
    /\ UNCHANGED << mounted, transactionState, blobs, rows, pendingDeletes,
                    navigated, redirectTimers, lastSuccessfulUpload, hist >>
    /\ UNCHANGED notUpload

\* What the pre-flight probe can come to: testAllConnections resolved with
\* overall true or false, rejected, or promiseWithTimeout rejected after 12 s.
PreflightOutcomes == { "healthy", "unhealthy", "rejected", "timeout" }

PreflightError ==
    [ code |-> "none", message |-> << "Pre-flight", "checks", "timed", "out" >> ]

\* Mutant of PreflightRaises: a rejected or timed-out probe is rethrown.
PreflightRaisesOnFailure(outcome) == outcome \in { "rejected", "timeout" }

\* Whether STEP 0 throws to the outer catch: an unhealthy status is only logged
\* and the inner catch swallows a rejection or a timeout.
PreflightRaises(outcome) == FALSE

\* STEP 0 is over, whatever the probe said (healthy, unhealthy, rejected, timed out).
PreflightSettles ==
    /\ \E a \in Attempts, outcome \in PreflightOutcomes :
         /\ run[a].pc = "preflight"
         /\ IF PreflightRaises(outcome)
            THEN Fail(a, run[a], view, hist, PreflightError)
            ELSE /\ Proceed(a, [ run[a] EXCEPT !.health = outcome ], view, hist,
                            "extract", "Extracting text from PDF...", { })
                 /\ UNCHANGED << transactionState, redirectTimers >>
    /\ UNCHANGED << mounted, aborted, blobs, rows, pendingDeletes, navigated,
                    lastSuccessfulUpload >>
    /\ UNCHANGED notUpload

\* STEP 1: extractTextFromPDF resolved with enough text, with too little, or threw.
ExtractSettles ==
    /\ \E a \in Attempts, outcome \in { "ok", "short", "raise" } :
         /\ run[a].pc = "extract"
         /\ LET r == [ run[a] EXCEPT !.health = "none" ] IN
              IF outcome = "ok"
              THEN /\ Proceed(a, r, view, hist, "uploadPdf", "Uploading PDF file...",
                              { "write" })
                   /\ UNCHANGED << transactionState, redirectTimers >>
              ELSE Fail(a, r, view, hist,
                        IF outcome = "short" THEN ExtractShort ELSE ExtractRaise)
    /\ UNCHANGED << mounted, aborted, blobs, rows, pendingDeletes, navigated,
                    lastSuccessfulUpload >>
    /\ UNCHANGED notUpload

\* STEP 2: storageService.uploadFile(file, pdfPath) settled.
UploadPdfSettles ==
    /\ \E a \in Attempts :
         /\ run[a].pc = "uploadPdf"
         /\ \/ LET r == [ run[a] EXCEPT
                            !.cs.pdfPath = Some(PdfPathOf(a).path),
                            !.cs.filesUploaded = Append(@, PdfPathOf(a)),
                            !.step = @ + 1 ]
                   v == OnProgress(view, mounted, r.step, "PDF uploaded successfully")
                   h == Mark(hist, a, ViewKinds(mounted))
               IN /\ blobs' = blobs \cup { PdfPathOf(a) }
                  /\ Proceed(a, r, v, h, "convert", "Creating image preview...", { })
                  /\ UNCHANGED << transactionState, redirectTimers >>
            \/ /\ \E err \in UploadErrors : Fail(a, run[a], view, hist, err)
               /\ blobs' = blobs
    /\ UNCHANGED << mounted, aborted, rows, pendingDeletes, navigated,
                    lastSuccessfulUpload >>
    /\ UNCHANGED notUpload

\* STEP 3: convertPdfToImage settled.  Resolved, it always carries a File with a
\* name: imagePath is generated and the upload of the preview starts.  Rejected,
\* the inner catch swallows the error.
ConvertSettles ==
    /\ \E a \in Attempts :
         /\ run[a].pc = "convert"
         /\ \/ /\ run' = [ run EXCEPT ![a].imagePath = Some(ImagePathOf(a).path),
                                      ![a].pc = "uploadImage" ]
               /\ hist' = Mark(hist, a, { "write" })
               /\ UNCHANGED << view, controllerRef >>
            \/ LET r == [ run[a] EXCEPT !.step = @ + 1 ]
                   v == OnProgress(view, mounted, r.step,
                                   "PDF uploaded (preview generation failed)")
                   h == Mark([ hist EXCEPT ![a].previewRaised = "render" ], a,
                             ViewKinds(mounted))
               IN Proceed(a, r, v, h, "create", "Saving resume information...",
                          { "write" })
    /\ UNCHANGED << mounted, aborted, transactionState, blobs, rows, pendingDeletes,
                    navigated, redirectTimers, lastSuccessfulUpload >>
    /\ UNCHANGED notUpload

\* STEP 3, the upload of the preview settled.  A failure is swallowed by the
\* inner catch; the local imagePath keeps the generated path.
UploadImageSettles ==
    /\ \E a \in Attempts :
         /\ run[a].pc = "uploadImage"
         /\ \/ LET r == [ run[a] EXCEPT
                            !.cs.imagePath = run[a].imagePath,
                            !.cs.filesUploaded = Append(@, ImagePathOf(a)),
                            !.step = @ + 1 ]
                   v == OnProgress(view, mounted, r.step,
                                   "Image preview created successfully")
                   h == Mark(hist, a, ViewKinds(mounted))
               IN /\ blobs' = blobs \cup { ImagePathOf(a) }
                  /\ Proceed(a, r, v, h, "create", "Saving resume information...",
                             { "write" })
            \/ LET r == [ run[a] EXCEPT !.step = @ + 1 ]
                   v == OnProgress(view, mounted, r.step,
                                   "PDF uploaded (preview generation failed)")
                   h == Mark([ hist EXCEPT ![a].previewRaised = "upload" ], a,
                             ViewKinds(mounted))
               IN /\ blobs' = blobs
                  /\ Proceed(a, r, v, h, "create", "Saving resume information...",
                             { "write" })
    /\ UNCHANGED << mounted, aborted, transactionState, rows, pendingDeletes,
                    navigated, redirectTimers, lastSuccessfulUpload >>
    /\ UNCHANGED notUpload

\* The row resumeService.create inserts for resumeData.
NewRow(a, r) ==
    [ id |-> a, resume_path |-> r.cs.pdfPath, image_path |-> r.imagePath,
      feedback |-> None, overall_score |-> None, ats_score |-> None ]

\* STEP 4: resumeService.create(resumeData) settled.  promiseWithTimeout does
\* not stop the insert it gave up on: an attempt that timed out may have been
\* applied by the server, and the retry then fails on the duplicate key, so
\* create can raise with the row stored.
CreateSettles ==
    /\ \E a \in Attempts :
         /\ run[a].pc = "create"
         /\ \/ LET r == [ run[a] EXCEPT !.cs.dbRecordCreated = TRUE, !.step = @ + 1 ]
                   v == OnProgress(view, mounted, r.step, "Resume information saved")
                   h == Mark([ hist EXCEPT ![a].createOk = TRUE ], a,
                             ViewKinds(mounted))
               IN /\ rows' = [ rows EXCEPT ![a] = Some(NewRow(a, run[a])) ]
                  /\ Proceed(a, r, v, h, "analyze",
                             "Analyzing resume with AI (this may take up to 90 seconds)...",
                             { "write" })
                  /\ UNCHANGED << transactionState, redirectTimers >>
            \/ \E err \in CreateErrors, applied \in BOOLEAN :
                 /\ Fail(a, run[a], view, [ hist EXCEPT ![a].createRaised = TRUE ], err)
                 /\ rows' = IF applied
                            THEN [ rows EXCEPT ![a] = Some(NewRow(a, run[a])) ]
                            ELSE rows
    /\ UNCHANGED << mounted, aborted, blobs, pendingDeletes, navigated,
                    lastSuccessfulUpload >>
    /\ UNCHANGED notUpload

\* STEP 5: analyzeResumeWithPerplexity settled; STEP 6 starts.  There is no
\* cancellation check between the two.
AnalyzeSettles ==
    /\ \E a \in Attempts :
         /\ run[a].pc = "analyze"
         /\ \E raised \in BOOLEAN :
              \E fb \in (IF raised THEN { FallbackFeedback } ELSE AiFeedbacks) :
                /\ run' = [ run EXCEPT ![a].feedback = Some(fb),
                                       ![a].step = @ + 1,
                                       ![a].pc = "update" ]
                /\ hist' = Mark([ hist EXCEPT ![a].aiRaised = raised ], a,
                                { "write" } \cup ViewKinds(mounted))
         /\ view' = OnProgress(view, mounted, run[a].step + 1,
                               "Saving analysis results...")
    /\ UNCHANGED << mounted, controllerRef, aborted, transactionState, blobs, rows,
                    pendingDeletes, navigated, redirectTimers, lastSuccessfulUpload >>
    /\ UNCHANGED notUpload

\* Mutant of UpdatedRow: the update writes the feedback column alone.
UpdatedRowFeedbackOnly(row, fb) ==
    [ row EXCEPT !.feedback = Some(fb) ]

\* The row after resumeService.updateFeedback(id, feedback).
UpdatedRow(row, fb) ==
    [ row EXCEPT !.feedback = Some(fb),
                 !.overall_score = Some(fb.overall_score),
                 !.ats_score = Some(fb.ats_score) ]

\* STEP 6: resumeService.updateFeedback settled; on success STEP 7 and the
\* finally block.  progressTracker.complete sets the tracker's step to
\* totalSteps, which the run keeps as it ended.
UpdateSettles ==
    /\ \E a \in Attempts :
         /\ run[a].pc = "update"
         /\ \/ /\ rows[a] # None
               /\ rows' = [ rows EXCEPT ![a] = Some(UpdatedRow(rows[a][1],
                                                               run[a].feedback[1])) ]
               /\ run' = [ run EXCEPT ![a] = [ Returned(run[a], "complete") EXCEPT
                                                  !.step = TotalSteps ] ]
               /\ view' = OnProgress(view, mounted, TotalSteps,
                                     "Analysis complete! Redirecting...")
               /\ lastSuccessfulUpload' = Some(a)
               /\ redirectTimers' = redirectTimers \cup { << "resume", a >> }
               /\ controllerRef' = None
               /\ hist' = Mark(hist, a, { "complete" } \cup ViewKinds(mounted))
               /\ UNCHANGED transactionState
            \/ /\ \E err \in (IF rows[a] = None THEN { UpdateNotFound } ELSE UpdateErrors) :
                    Fail(a, run[a], view, [ hist EXCEPT ![a].updateRaised = TRUE ], err)
               /\ UNCHANGED << rows, lastSuccessfulUpload >>
    /\ UNCHANGED << mounted, aborted, blobs, pendingDeletes, navigated >>
    /\ UNCHANGED notUpload

\* The deletes that may still fail.
FailuresLeft == MaxFailedDeletes - Cardinality({ a \in Attempts : hist[a].delFailed })

\* Promise.allSettled(cleanupTasks) of the catch block settled: each delete that
\* was issued has succeeded or failed on its own.  Then the rest of the catch
\* block and the finally block.
CleanupSettles ==
    /\ \E a \in Attempts :
         /\ run[a].pc = "cleanup"
         /\ \E recOk \in BOOLEAN, okFiles \in SUBSET CleanupFileTasks(run[a].cs) :
              LET rec     == CleanupRecordTask(run[a].cs)
                  rowGone == rec /\ recOk /\ rows[a] # None
                  failed  == (rec /\ ~rowGone) \/ okFiles # CleanupFileTasks(run[a].cs)
                  nFailed == (IF rec /\ ~recOk THEN 1 ELSE 0)
                               + Cardinality(CleanupFileTasks(run[a].cs) \ okFiles)
              IN /\ (~rec => recOk)
                 /\ nFailed <= FailuresLeft
                 /\ rows' = IF rowGone THEN [ rows EXCEPT ![a] = None ] ELSE rows
                 /\ blobs' = blobs \ okFiles
                 /\ pendingDeletes' = IF rowGone
                                      THEN pendingDeletes
                                             \cup (RowBlobs(rows[a][1]) \cap blobs')
                                      ELSE pendingDeletes
                 /\ FailureFinish(a, run[a], view,
                                  [ hist EXCEPT ![a].delFailed = failed ],
                                  run[a].err[1])
    /\ UNCHANGED << mounted, aborted, navigated, lastSuccessfulUpload >>
    /\ UNCHANGED notUpload

\* A deleteFile that resumeService.delete started without awaiting it settles.
BlobDeleteSettles ==
    /\ \E d \in pendingDeletes, ok \in BOOLEAN :
         /\ (~ok => (hist[d.path[1]].delFailed \/ FailuresLeft >= 1))
         /\ pendingDeletes' = pendingDeletes \ { d }
         /\ blobs' = IF ok THEN blobs \ { d } ELSE blobs
         /\ hist' = IF ok THEN hist ELSE [ hist EXCEPT ![d.path[1]].delFailed = TRUE ]
    /\ UNCHANGED << run, view, mounted, controllerRef, aborted, transactionState,
                    rows, navigated, redirectTimers, lastSuccessfulUpload >>
    /\ UNCHANGED notUpload

(***************************************************************************)
(* handleCancel, the unmount effect, the redirect timers                   *)
(***************************************************************************)
\* The cancel button is rendered only while isProcessing; the user confirms.
\* cleanupFailedUpload(transactionState): transactionState is the React state,
\* which is only ever set to the empty transaction, so the cleanup has no task
\* to await and the handler runs to its end without suspending.
CancelConfirmed ==
    /\ aborted' = IF controllerRef # None
                  THEN [ aborted EXCEPT ![controllerRef[1]] = TRUE ]
                  ELSE aborted
    /\ ~HasCleanupTasks(transactionState)
    /\ view' = IdleView
    /\ transactionState' = EmptyTransaction
    /\ hist' = IF controllerRef # None /\ run[controllerRef[1]].pc \in InFlight
               THEN [ hist EXCEPT ![controllerRef[1]].cancelFired = TRUE,
                                  ![controllerRef[1]].cancelStored =
                                      @ \/ PdfPathOf(controllerRef[1]) \in blobs ]
               ELSE hist

\* The user clicks the cancel button and confirms.
HandleCancel ==
    /\ mounted
    /\ view.isProcessing
    /\ CancelConfirmed
    /\ UNCHANGED << run, mounted, controllerRef, blobs, rows, pendingDeletes,
                    navigated, redirectTimers, lastSuccessfulUpload >>
    /\ UNCHANGED notUpload

\* setError(`Upload appears stuck at step ${currentStep}. Please try again.`)
\* getStepTimeout(step) of the stuck-detection effect, in ms.
getStepTimeout(step) ==
    CASE step = 0 -> 15000
      [] step = 1 -> 30000
      [] step = 2 -> 240000
      [] step = 3 -> 60000
      [] step = 4 -> 30000
      [] step = 5 -> 120000
      [] step = 6 -> 30000
      [] OTHER    -> 45000

StuckText(step) == "Upload appears stuck at step " \o ToString(step)

\* The callback of the stuck-detection timer.  The effect re-arms the timer when
\* isProcessing or currentStep changes, so the callback sees the current values
\* of both; the timer is due long after the redirect timer of a completed run.
\* At step 0 only the view is advanced.  At another step: setError, then
\* handleCancel, which asks the user to confirm; confirmed, it runs to its end
\* in the same batch of state updates, setError('') included.
StuckTimerFires ==
    /\ mounted
    /\ view.isProcessing
    /\ \E a \in Attempts : run[a].pc \in InFlight
    /\ IF view.currentStep = 0
       THEN /\ view' = [ view EXCEPT
                           !.currentStep = 1,
                           !.statusText =
                               "Skipping health checks, proceeding with upload..." ]
            /\ UNCHANGED << aborted, transactionState, hist >>
       ELSE \E confirmCancel \in BOOLEAN :
              IF confirmCancel
              THEN CancelConfirmed
              ELSE /\ view' = [ view EXCEPT !.error = StuckText(view.currentStep) ]
                   /\ UNCHANGED << aborted, transactionState, hist >>
    /\ UNCHANGED << run, mounted, controllerRef, blobs, rows, pendingDeletes,
                    navigated, redirectTimers, lastSuccessfulUpload >>
    /\ UNCHANGED notUpload

\* The values the unmount effect's closure holds: the effect has no dependencies,
\* so they are those of the first render.
UnmountSeesProcessing == FALSE
UnmountSeesTransaction == EmptyTransaction

\* The cleanup function of the mount effect.
UnmountEffect ==
    /\ mounted' = FALSE
    /\ aborted' = IF controllerRef # None
                  THEN [ aborted EXCEPT ![controllerRef[1]] = TRUE ]
                  ELSE aborted
    /\ ~(UnmountSeesProcessing /\ UnmountSeesTransaction.resumeId # None)

\* The user leaves the page.
Unmount ==
    /\ mounted
    /\ UnmountEffect
    /\ UNCHANGED << run, view, controllerRef, transactionState, blobs, rows,
                    pendingDeletes, navigated, redirectTimers, lastSuccessfulUpload,
                    hist >>
    /\ UNCHANGED notUpload

\* setTimeout(() => { if (mountedRef.current) navigate(...) }): the redirect to
\* the detail view 1.5 s after Complete, or to /auth 3 s after an authentication
\* error.  Navigating away unmounts the view.
RedirectTimerFires ==
    /\ \E t \in redirectTimers :
         /\ redirectTimers' = redirectTimers \ { t }
         /\ IF mounted
            THEN /\ navigated' = Some(t)
                 /\ UnmountEffect
                 /\ hist' = IF t[1] = "resume"
                            THEN Mark(hist, t[2], { "redirect" })
                            ELSE hist
            ELSE UNCHANGED << navigated, mounted, aborted, hist >>
    /\ UNCHANGED << run, view, controllerRef, transactionState, blobs, rows,
                    pendingDeletes, lastSuccessfulUpload >>
    /\ UNCHANGED notUpload

UploadNext ==
    \/ Submit
    \/ PreflightSettles
    \/ ExtractSettles
    \/ UploadPdfSettles
    \/ ConvertSettles
    \/ UploadImageSettles
    \/ CreateSettles
    \/ AnalyzeSettles
    \/ UpdateSettles
    \/ CleanupSettles
    \/ BlobDeleteSettles
    \/ HandleCancel
    \/ StuckTimerFires
    \/ Unmount
    \/ RedirectTimerFires

(***************************************************************************)
(* analyzeResumeWithPerplexity (services/perplexityService.js) and the     *)
(* STEP 5 / STEP 6 of handleAnalyze that call it.                          *)
(*                                                                         *)
(* A JSON value is the pair of its JavaScript type and, for a number, its  *)
(* value.  A message content is the text of the model's answer: an opening *)
(* code fence (three backquotes, with or without the json tag) or none, a  *)
(* body that is the serialisation of an object or prose, and a closing     *)
(* code fence or none.                                                     *)
(***************************************************************************)
MAX_RETRIES == 2
API_TIMEOUT == 60000

Undefined == [ t |-> "undefined", v |-> 0 ]
Null      == [ t |-> "null", v |-> 0 ]
Num(n)    == [ t |-> "number", v |-> n ]
Obj       == [ t |-> "object", v |-> 0 ]

\* The operand of JavaScript's ! is truthy.
Truthy(x) == x.t = "object" \/ (x.t = "number" /\ x.v # 0)

\* The objects an answer can serialise: overall_score missing or a number of
\* the schema's range, categories missing, null or an object, and the deeper
\* field suggestions missing or present.
Scores == { 0, 1, 100 }

AnalysisObjects ==
    [ overall_score : { Undefined } \cup { Num(n) : n \in Scores },
      categories    : { Undefined, Null, Obj },
      suggestions   : { Undefined, Obj } ]

NoObject == [ overall_score |-> Undefined, categories |-> Undefined,
              suggestions |-> Undefined ]

Fences == { "none", "fence json", "fence" }

Contents ==
    [ open : Fences, text : { "json" }, value : AnalysisObjects, close : BOOLEAN ]
      \cup [ open : Fences, text : { "prose" }, value : { NoObject }, close : BOOLEAN ]

\* content.trim().replace(...): a leading fence tagged json and a trailing
\* fence are removed; a leading fence without the json tag stays.
CleanContent(content) ==
    [ content EXCEPT !.open = IF @ = "fence json" THEN "none" ELSE @, !.close = FALSE ]

\* JSON.parse(cleanContent) returns, rather than throws a SyntaxError.
Parses(cleanContent) ==
    cleanContent.open = "none" /\ cleanContent.text = "json" /\ ~cleanContent.close

\* What one request to the endpoint comes to: fetch rejected (network), the
\* 60 s timer aborted it (abort), a non-2xx status (http), a body without
\* message content (empty), or a message content.
CallOutcome(kind, content) == [ kind |-> kind, content |-> content ]

NoContent == [ open |-> "none", text |-> "prose", value |-> NoObject, close |-> FALSE ]

FetchOutcomes ==
    { CallOutcome(k, NoContent) : k \in { "network", "http", "empty" } }
      \cup { CallOutcome("content", c) : c \in Contents }

AbortOutcome == CallOutcome("abort", NoContent)

NetworkError   == [ name |-> "TypeError", message |-> "Failed to fetch" ]
AbortError     == [ name |-> "AbortError", message |-> "The user aborted a request." ]
ApiError       == [ name |-> "Error", message |-> "Perplexity API error" ]
NoContentError == [ name |-> "Error", message |-> "No content received from Perplexity API" ]
ParseError     == [ name |-> "SyntaxError", message |-> "Unexpected token" ]
StructureError ==
    [ name |-> "Error", message |-> "Invalid response structure from Perplexity API" ]

\* !analysisResult.overall_score || !analysisResult.categories
InvalidStructure(analysisResult) ==
    ~Truthy(analysisResult.overall_score) \/ ~Truthy(analysisResult.categories)

\* The try block of one attempt, from the settled fetch on.
TryBody(outcome) ==
    LET raise(e) == [ ok |-> FALSE, error |-> e, value |-> NoObject ]
        clean    == CleanContent(outcome.content)
    IN  CASE outcome.kind = "network" -> raise(NetworkError)
          [] outcome.kind = "abort"   -> raise(AbortError)
          [] outcome.kind = "http"    -> raise(ApiError)
          [] outcome.kind = "empty"   -> raise(NoContentError)
          [] OTHER ->
               IF ~Parses(clean) THEN raise(ParseError)
               ELSE IF InvalidStructure(clean.value) THEN raise(StructureError)
               ELSE [ ok |-> TRUE, error |-> StructureError, value |-> clean.value ]

\* Mutant of RethrowsNow: a parse or structure error is terminal.
RethrowsNowOnBadContent(attempt, error) ==
    \/ attempt = MAX_RETRIES
    \/ error.name = "AbortError"
    \/ error \in { ParseError, StructureError }

\* The catch block: attempt === MAX_RETRIES || error.name === 'AbortError'.
RethrowsNow(attempt, error) == attempt = MAX_RETRIES \/ error.name = "AbortError"

\* The fallback literal of STEP 5, as a JSON value.
FallbackAnalysis ==
    [ overall_score |-> Num(FallbackFeedback.overall_score), categories |-> Obj,
      suggestions |-> Obj ]

\* Mutant of Step5Raises: the catch of STEP 5 rethrows a parse error.
Step5RaisesParseError(aiError) == aiError.name = "SyntaxError"

\* Whether STEP 5 throws to the outer catch: its own catch takes every aiError.
Step5Raises(aiError) == FALSE

AnalyzeInit ==
    /\ aiAttempt = 0
    /\ aiPhase = "idle"
    /\ aiTimer = "none"
    /\ aiDelay = 0
    /\ aiCalls = << >>
    /\ aiThrown = None
    /\ aiResult = None
    /\ aiStep = "step5"
    /\ aiFeedback = None
    /\ aiUpdateRaised = FALSE

AnalyzeParked ==
    /\ aiAttempt = 0
    /\ aiPhase = "parked"
    /\ aiTimer = "none"
    /\ aiDelay = 0
    /\ aiCalls = << >>
    /\ aiThrown = None
    /\ aiResult = None
    /\ aiStep = "parked"
    /\ aiFeedback = None
    /\ aiUpdateRaised = FALSE

\* STEP 5 calls analyze: the loop starts with attempt 1, arms the abort timer
\* and awaits fetch.
AnalyzeStart ==
    /\ aiStep = "step5"
    /\ aiPhase = "idle"
    /\ aiStep' = "analyzing"
    /\ aiAttempt' = 1
    /\ aiPhase' = "fetching"
    /\ aiTimer' = "armed"
    /\ UNCHANGED << aiDelay, aiCalls, aiThrown, aiResult, aiFeedback, aiUpdateRaised >>
    /\ UNCHANGED notAnalyze

\* The rest of the attempt once its request is over: return, rethrow, or sleep
\* 1000 * attempt ms before the next attempt.
AttemptEnds(outcome) ==
    LET res == TryBody(outcome) IN
    /\ aiCalls' = Append(aiCalls, outcome)
    /\ IF res.ok
       THEN /\ aiPhase' = "resolved"
            /\ aiResult' = Some(res.value)
            /\ UNCHANGED << aiThrown, aiDelay >>
       ELSE IF RethrowsNow(aiAttempt, res.error)
            THEN /\ aiPhase' = "rejected"
                 /\ aiThrown' = Some(res.error)
                 /\ UNCHANGED << aiResult, aiDelay >>
            ELSE /\ aiPhase' = "sleeping"
                 /\ aiDelay' = 1000 * aiAttempt
                 /\ UNCHANGED << aiResult, aiThrown >>
    /\ UNCHANGED << aiAttempt, aiStep, aiFeedback, aiUpdateRaised >>

\* fetch settles before the timer: clearTimeout runs only when fetch resolved.
FetchSettles ==
    /\ aiPhase = "fetching"
    /\ \E outcome \in FetchOutcomes :
         /\ aiTimer' = IF outcome.kind = "network" THEN aiTimer ELSE "cleared"
         /\ AttemptEnds(outcome)
    /\ UNCHANGED notAnalyze

\* API_TIMEOUT ms passed: controller.abort() makes fetch reject with AbortError.
AbortTimerFires ==
    /\ aiPhase = "fetching"
    /\ aiTimer = "armed"
    /\ aiTimer' = "fired"
    /\ AttemptEnds(AbortOutcome)
    /\ UNCHANGED notAnalyze

\* The backoff delay is over: the next attempt starts.
BackoffElapses ==
    /\ aiPhase = "sleeping"
    /\ aiAttempt < MAX_RETRIES
    /\ aiAttempt' = aiAttempt + 1
    /\ aiPhase' = "fetching"
    /\ aiTimer' = "armed"
    /\ aiDelay' = 0
    /\ UNCHANGED << aiCalls, aiThrown, aiResult, aiStep, aiFeedback, aiUpdateRaised >>
    /\ UNCHANGED notAnalyze

\* STEP 5 after the await: the analysis, or the fallback literal when analyze
\* rejected; then STEP 6 awaits updateFeedback.
Step5Settles ==
    /\ aiStep = "analyzing"
    /\ aiPhase \in { "resolved", "rejected" }
    /\ IF aiPhase = "resolved"
       THEN aiFeedback' = aiResult /\ aiStep' = "saving"
       ELSE IF Step5Raises(aiThrown[1])
            THEN aiStep' = "failed" /\ UNCHANGED aiFeedback
            ELSE aiFeedback' = Some(FallbackAnalysis) /\ aiStep' = "saving"
    /\ UNCHANGED << aiAttempt, aiPhase, aiTimer, aiDelay, aiCalls, aiThrown, aiResult,
                    aiUpdateRaised >>
    /\ UNCHANGED notAnalyze

\* STEP 6 / STEP 7: updateFeedback resolved (the progress is completed) or
\* rejected (the outer catch).
Step6Settles ==
    /\ aiStep = "saving"
    /\ \E ok \in BOOLEAN :
         /\ aiStep' = IF ok THEN "complete" ELSE "failed"
         /\ aiUpdateRaised' = ~ok
    /\ UNCHANGED << aiAttempt, aiPhase, aiTimer, aiDelay, aiCalls, aiThrown, aiResult,
                    aiFeedback >>
    /\ UNCHANGED notAnalyze

AnalyzeNext ==
    \/ AnalyzeStart
    \/ FetchSettles
    \/ AbortTimerFires
    \/ BackoffElapses
    \/ Step5Settles
    \/ Step6Settles

(***************************************************************************)
(* Deleting a resume: resumeService.delete(id) (lib/supabase.js) and its   *)
(* callers ResumeCard.handleDelete (components/ResumeCard.js) and          *)
(* cleanupFailedUpload (pages/Upload.js).                                  *)
(*                                                                         *)
(* One resume is considered, with id 1, its PDF blob and its preview blob. *)
(* A deleteFile call is identified by who made it (the card, delete(id),   *)
(* the cleanup) and by the blob; its retries are inside the call.          *)
(***************************************************************************)
BlobKinds == { "pdf", "image" }
DeleteOrigins == { "card", "svc", "cleanup" }
DeleteCallers == { "card", "cleanup", "direct" }

BlobOf(kind) == IF kind = "pdf" THEN PdfPathOf(1) ELSE ImagePathOf(1)

KindOf(file) == IF file.bucket = "resumes" THEN "pdf" ELSE "image"

\* The rows of the resumes table a card can show: the preview is optional.
CardRows ==
    { [ id |-> 1, resume_path |-> Some(PdfPathOf(1).path), image_path |-> ip ] :
        ip \in { None, Some(ImagePathOf(1).path) } }

\* The blobs a record names: if (resume.resume_path), if (resume.image_path).
KindsNamed(resume) ==
    (IF resume.resume_path # None THEN { "pdf" } ELSE { })
      \cup (IF resume.image_path # None THEN { "image" } ELSE { })

\* currentState with n files uploaded and the record created or not.
CurrentStateWith(n, db) ==
    [ resumeId |-> Some(1),
      pdfPath |-> IF n >= 1 THEN Some(PdfPathOf(1).path) ELSE None,
      imagePath |-> IF n >= 2 THEN Some(ImagePathOf(1).path) ELSE None,
      dbRecordCreated |-> db,
      filesUploaded |-> SubSeq(<< PdfPathOf(1), ImagePathOf(1) >>, 1, n) ]

\* The values currentState has when handleAnalyze reaches its catch block (the
\* record is created only after the PDF upload), and the empty transaction
\* handleCancel and the unmount effect pass.
CleanupStates ==
    { EmptyTransaction }
      \cup { CurrentStateWith(n, db) : n \in 0..2, db \in { FALSE } }
      \cup { CurrentStateWith(n, db) : n \in 1..2, db \in { TRUE } }

NoDeleteFile == [ o \in DeleteOrigins, k \in BlobKinds |-> "none" ]

\* Mutant of AfterRowDelete: the blob deletions are issued whatever the row
\* deletion came to.
AfterRowDeleteAlwaysIssues(error, resume) ==
    [ svc |-> IF error THEN "rejected" ELSE "resolved", issue |-> KindsNamed(resume) ]

\* delete(id) after the await of the row deletion: if (error) throw; otherwise
\* one deleteFile per path the record names, not awaited.
AfterRowDelete(error, resume) ==
    IF error THEN [ svc |-> "rejected", issue |-> { } ]
    ELSE [ svc |-> "resolved", issue |-> KindsNamed(resume) ]

\* Mutant of AllSettled: the cleanup goes on as soon as one task has settled.
AnySettled(statuses) == statuses # { "pending" }

\* await Promise.allSettled(cleanupTasks)
AllSettled(statuses) == "pending" \notin statuses

\* The status of the tasks cleanupFailedUpload(state) has built, given the
\* position of delete(id) and the deleteFile calls.
CleanupTaskStatuses(state, svc, files) ==
    (IF CleanupRecordTask(state)
     THEN { IF svc \in { "read", "rowDelete" } THEN "pending" ELSE "settled" }
     ELSE { })
      \cup { files["cleanup", KindOf(f)] : f \in CleanupFileTasks(state) }

DeleteInit ==
    /\ dCaller \in DeleteCallers
    /\ dId \in (IF dCaller = "direct" THEN { None, Some(1) } ELSE { Some(1) })
    /\ dState \in (IF dCaller = "cleanup" THEN CleanupStates ELSE { EmptyTransaction })
    /\ dProp \in (IF dCaller = "card" THEN { Some(r) : r \in CardRows } ELSE { None })
    /\ dRow \in (CASE dCaller = "card" -> { None, dProp }
                   [] dCaller = "cleanup" ->
                        IF dState.dbRecordCreated
                        THEN { Some([ id |-> 1, resume_path |-> dState.pdfPath,
                                      image_path |-> dState.imagePath ]) }
                        ELSE { None }
                   [] OTHER -> { None } \cup { Some(r) : r \in CardRows })
    /\ dBlobs \in (IF dCaller = "cleanup" THEN { FilesOf(dState) }
                   ELSE SUBSET { BlobOf(k) : k \in BlobKinds })
    /\ dCardPc = IF dCaller = "card" THEN "confirm" ELSE "none"
    /\ dSvc = "idle"
    /\ dResume = None
    /\ dFiles = NoDeleteFile
    /\ dCleanup = IF dCaller = "cleanup" THEN "idle" ELSE "none"

DeleteParked ==
    /\ dCaller = "parked"
    /\ dId = None
    /\ dState = EmptyTransaction
    /\ dProp = None
    /\ dRow = None
    /\ dBlobs = { }
    /\ dCardPc = "none"
    /\ dSvc = "idle"
    /\ dResume = None
    /\ dFiles = NoDeleteFile
    /\ dCleanup = "none"

\* What the caller of delete(id) does once delete(id) has settled as svc: the
\* card notifies its parent or alerts; the cleanup looks at its tasks.
CallerResumes(svc, files) ==
    /\ dCardPc' = IF dCardPc = "delRow" /\ svc \in { "resolved", "rejected" }
                  THEN (IF svc = "resolved" THEN "done" ELSE "alert")
                  ELSE dCardPc
    /\ dCleanup' = IF dCleanup = "awaiting"
                      /\ AllSettled(CleanupTaskStatuses(dState, svc, files))
                   THEN "resolved" ELSE dCleanup

\* handleDelete from one await to the next: the PDF blob, the preview blob,
\* then the row.
CardAdvance(done, files) ==
    LET todo == KindsNamed(dProp[1]) \ done IN
      IF "pdf" \in todo
      THEN [ pc |-> "delPdf", files |-> [ files EXCEPT !["card", "pdf"] = "pending" ],
             svc |-> dSvc ]
      ELSE IF "image" \in todo
      THEN [ pc |-> "delImage", files |-> [ files EXCEPT !["card", "image"] = "pending" ],
             svc |-> dSvc ]
      ELSE [ pc |-> "delRow", files |-> files, svc |-> "read" ]

\* The confirm dialog of handleDelete.
CardConfirm ==
    /\ dCardPc = "confirm"
    /\ \E yes \in BOOLEAN :
         IF yes
         THEN LET n == CardAdvance({ }, dFiles) IN
                dCardPc' = n.pc /\ dFiles' = n.files /\ dSvc' = n.svc
         ELSE dCardPc' = "declined" /\ UNCHANGED << dFiles, dSvc >>
    /\ UNCHANGED << dCaller, dId, dState, dProp, dRow, dBlobs, dResume, dCleanup >>
    /\ UNCHANGED notDelete

\* An awaited deleteFile of handleDelete settles: on a rejection the catch
\* block alerts and the handler ends.
CardFileSettles ==
    /\ dCardPc \in { "delPdf", "delImage" }
    /\ LET k == IF dCardPc = "delPdf" THEN "pdf" ELSE "image" IN
       \E ok \in BOOLEAN :
         IF ok
         THEN LET n == CardAdvance({ "pdf" } \cup (IF k = "image" THEN { "image" } ELSE { }),
                                   [ dFiles EXCEPT !["card", k] = "ok" ])
              IN /\ dBlobs' = dBlobs \ { BlobOf(k) }
                 /\ dCardPc' = n.pc /\ dFiles' = n.files /\ dSvc' = n.svc
         ELSE /\ dCardPc' = "alert"
              /\ dFiles' = [ dFiles EXCEPT !["card", k] = "failed" ]
              /\ UNCHANGED << dBlobs, dSvc >>
    /\ UNCHANGED << dCaller, dId, dState, dProp, dRow, dResume, dCleanup >>
    /\ UNCHANGED notDelete

\* delete(id) called on its own: if (!id) throw, else the read is awaited.
DeleteCalled ==
    /\ dCaller = "direct"
    /\ dSvc = "idle"
    /\ dSvc' = IF dId = None THEN "rejected" ELSE "read"
    /\ UNCHANGED << dCaller, dId, dState, dProp, dRow, dBlobs, dCardPc, dResume, dFiles,
                    dCleanup >>
    /\ UNCHANGED notDelete

\* delete(id): getById settled.  Without a row it rejects (RESUME_NOT_FOUND).
SvcReadSettles ==
    /\ dSvc = "read"
    /\ \E ok \in BOOLEAN :
         /\ dRow = None => ~ok
         /\ dSvc' = IF ok THEN "rowDelete" ELSE "rejected"
         /\ dResume' = IF ok THEN dRow ELSE dResume
         /\ CallerResumes(dSvc', dFiles)
    /\ UNCHANGED << dCaller, dId, dState, dProp, dRow, dBlobs, dFiles >>
    /\ UNCHANGED notDelete

\* delete(id): the row deletion settled: without error, with an error, or by
\* the 20 s timeout (the server may still have removed the row).
SvcRowDeleteSettles ==
    /\ dSvc = "rowDelete"
    /\ \E error \in BOOLEAN, applied \in BOOLEAN :
         /\ ~error => applied
         /\ LET res == AfterRowDelete(error, dResume[1]) IN
              /\ dSvc' = res.svc
              /\ dFiles' = [ o \in DeleteOrigins, k \in BlobKinds |->
                               IF o = "svc" /\ k \in res.issue THEN "pending"
                               ELSE dFiles[o, k] ]
         /\ dRow' = IF applied THEN None ELSE dRow
         /\ CallerResumes(dSvc', dFiles')
    /\ UNCHANGED << dCaller, dId, dState, dProp, dBlobs, dResume >>
    /\ UNCHANGED notDelete

\* A deleteFile that delete(id) or the cleanup started settles; its rejection
\* is taken by the .catch attached to it.
BackgroundFileSettles ==
    /\ \E o \in { "svc", "cleanup" }, k \in BlobKinds, ok \in BOOLEAN :
         /\ dFiles[o, k] = "pending"
         /\ dFiles' = [ dFiles EXCEPT ![o, k] = IF ok THEN "ok" ELSE "failed" ]
         /\ dBlobs' = IF ok THEN dBlobs \ { BlobOf(k) } ELSE dBlobs
         /\ CallerResumes(dSvc, dFiles')
    /\ UNCHANGED << dCaller, dId, dState, dProp, dRow, dSvc, dResume >>
    /\ UNCHANGED notDelete

\* cleanupFailedUpload(state) up to its await: the tasks are started; without
\* tasks it returns at once.
CleanupCalled ==
    /\ dCleanup = "idle"
    /\ dSvc' = IF CleanupRecordTask(dState) THEN "read" ELSE dSvc
    /\ dFiles' = [ o \in DeleteOrigins, k \in BlobKinds |->
                     IF o = "cleanup" /\ BlobOf(k) \in CleanupFileTasks(dState)
                     THEN "pending" ELSE dFiles[o, k] ]
    /\ dCleanup' = IF HasCleanupTasks(dState) THEN "awaiting" ELSE "resolved"
    /\ UNCHANGED << dCaller, dId, dState, dProp, dRow, dBlobs, dCardPc, dResume >>
    /\ UNCHANGED notDelete

DeleteNext ==
    \/ CardConfirm
    \/ CardFileSettles
    \/ DeleteCalled
    \/ SvcReadSettles
    \/ SvcRowDeleteSettles
    \/ BackgroundFileSettles
    \/ CleanupCalled

(***************************************************************************)
(* storageService.uploadFile(file, path, options)                          *)
(*                                                                         *)
(* ufCalls is the history of the network calls the function made: "probe"  *)
(* for healthCheck.testStorageConnection, "upload" for                     *)
(* supabase.storage.from(bucket).upload.  ufThrown is the history of the   *)
(* errors thrown by the attempts handed to retryWithBackoff.               *)
(***************************************************************************)
MaxFileSize == 52428800     \* 50 * 1024 * 1024 bytes

\* The file argument: missing, or a File of some size in bytes.
FileArgs ==
    { None } \cup { Some([ size |-> n ]) : n \in { 0, 1, MaxFileSize, MaxFileSize + 1 } }

\* The options the function reads that change its control flow.
UploadOptions ==
    [ skipHealthCheck : BOOLEAN, upsert : BOOLEAN, maxRetries : 1..MaxRetriesBound ]

\* The error member of the storage response, by its message.
StorageErrorMessages ==
    { << "The", "resource", "already", "exists" >>,
      << "Permission", "denied" >>,
      << "Authentication", "required" >>,
      << "Bad", "Gateway" >> }

\* How one upload call ends: data, an error member, or the timeout of
\* promiseWithTimeout.
UploadResponses ==
    { [ kind |-> "data", message |-> << >> ] }
      \cup { [ kind |-> "error", message |-> m ] : m \in StorageErrorMessages }
      \cup { [ kind |-> "timeout", message |-> << "Upload", "timeout", "after", "ms" >> ] }

\* The pre-upload validation: the error it throws, or None.
PreUploadValidationEmptyAccepted(file) ==
    IF file = None
    THEN Some(createError(<< "Invalid", "file", "provided" >>, "INVALID_FILE",
                          << "validation" >>))
    ELSE IF file[1].size > MaxFileSize
    THEN Some(createError(<< "File", "too", "large." >>, "FILE_TOO_LARGE",
                          << "validation" >>))
    ELSE None

PreUploadValidation(file) ==
    IF file = None \/ file[1].size = 0
    THEN Some(createError(<< "Invalid", "file", "provided" >>, "INVALID_FILE",
                          << "validation" >>))
    ELSE IF file[1].size > MaxFileSize
    THEN Some(createError(<< "File", "too", "large." >>, "FILE_TOO_LARGE",
                          << "validation" >>))
    ELSE None

\* What the try block of an attempt throws for a response that is not data.
UploadAttemptThrows(response, upsert, attempt) ==
    IF response.kind = "timeout"
    THEN [ id |-> << "timeout", attempt >>, message |-> response.message,
           code |-> "TIMEOUT" ]
    ELSE IF includes(response.message, << "already", "exists" >>) /\ ~upsert
    THEN createError(<< "File", "already", "exists." >>, "FILE_EXISTS",
                     << "attempt", attempt >>)
    ELSE createError(<< "Upload", "failed:" >> \o response.message, "UPLOAD_FAILED",
                     << "attempt", attempt >>)

\* The condition of the catch block's branch commented "Don't retry for
\* certain errors".
DontRetry(err) ==
    \/ err.code = "INVALID_FILE"
    \/ err.code = "FILE_TOO_LARGE"
    \/ err.code = "FILE_EXISTS"
    \/ includes(err.message, << "Permission", "denied" >>)
    \/ includes(err.message, << "Authentication" >>)

\* The catch block of an attempt: both of its branches throw err.
UploadAttemptCatch(err) == IF DontRetry(err) THEN err ELSE err

UploadFileInit ==
    /\ ufFile \in FileArgs
    /\ ufOptions \in UploadOptions
    /\ ufPc = "called"
    /\ ufAttempt = 0
    /\ ufCalls = << >>
    /\ ufThrown = << >>
    /\ ufResult = None
    /\ ufDelay = 0

UploadFileParked ==
    /\ ufFile = None
    /\ ufOptions = [ skipHealthCheck |-> FALSE, upsert |-> FALSE, maxRetries |-> 1 ]
    /\ ufPc = "parked"
    /\ ufAttempt = 0
    /\ ufCalls = << >>
    /\ ufThrown = << >>
    /\ ufResult = None
    /\ ufDelay = 0

\* retryWithBackoff starts attempt n: fn(n) issues the upload call and awaits it.
UploadAttemptStarts(n) ==
    /\ ufPc' = "uploading"
    /\ ufAttempt' = n
    /\ ufCalls' = Append(ufCalls, "upload")

\* The call of uploadFile up to its first await: the validation, then the
\* health probe unless skipped, else the first attempt.
UploadFileCalled ==
    /\ ufPc = "called"
    /\ LET invalid == PreUploadValidation(ufFile) IN
         IF invalid # None
         THEN /\ ufPc' = "rejected"
              /\ ufResult' = invalid
              /\ UNCHANGED << ufAttempt, ufCalls >>
         ELSE IF ~ufOptions.skipHealthCheck
         THEN /\ ufPc' = "health"
              /\ ufCalls' = Append(ufCalls, "probe")
              /\ UNCHANGED << ufAttempt, ufResult >>
         ELSE /\ UploadAttemptStarts(1)
              /\ UNCHANGED ufResult
    /\ UNCHANGED << ufFile, ufOptions, ufThrown, ufDelay >>
    /\ UNCHANGED notUploadFile

\* The health probe settles (healthy, unhealthy, rejected or timed out): every
\* outcome is logged and the upload proceeds.
HealthProbeSettles ==
    /\ ufPc = "health"
    /\ \E outcome \in { "healthy", "unhealthy", "rejected", "timeout" } :
         UploadAttemptStarts(1)
    /\ UNCHANGED << ufFile, ufOptions, ufThrown, ufResult, ufDelay >>
    /\ UNCHANGED notUploadFile

\* The upload call of the current attempt settles.  Data resolves uploadFile;
\* anything else is thrown through the attempt's catch block into the catch
\* of retryWithBackoff, which gives up on the last attempt and sleeps
\* otherwise.
UploadCallSettles ==
    /\ ufPc = "uploading"
    /\ \E response \in UploadResponses, jitter \in Jitters :
         IF response.kind = "data"
         THEN /\ ufPc' = "resolved"
              /\ UNCHANGED << ufThrown, ufResult, ufDelay >>
         ELSE LET err == UploadAttemptCatch(
                             UploadAttemptThrows(response, ufOptions.upsert, ufAttempt))
              IN /\ ufThrown' = Append(ufThrown, err)
                 /\ IF ufAttempt = ufOptions.maxRetries
                    THEN /\ ufPc' = "rejected"
                         /\ ufResult' = Some(err)
                         /\ UNCHANGED ufDelay
                    ELSE /\ ufPc' = "sleeping"
                         /\ ufDelay' = BackoffDelay(ufAttempt, jitter)
                         /\ UNCHANGED ufResult
    /\ UNCHANGED << ufFile, ufOptions, ufAttempt, ufCalls >>
    /\ UNCHANGED notUploadFile

\* The backoff delay of retryWithBackoff elapsed: the next attempt starts.
UploadBackoffElapsed ==
    /\ ufPc = "sleeping"
    /\ UploadAttemptStarts(ufAttempt + 1)
    /\ ufDelay' = 0
    /\ UNCHANGED << ufFile, ufOptions, ufThrown, ufResult >>
    /\ UNCHANGED notUploadFile

UploadFileNext ==
    \/ UploadFileCalled
    \/ HealthProbeSettles
    \/ UploadCallSettles
    \/ UploadBackoffElapsed

(***************************************************************************)
(* connectionMonitor: handleOnline, handleOffline, the debounce timer,     *)
(* addListener and the function it returns.                                *)
(*                                                                         *)
(* Time is counted in milliseconds and advances in ticks; a timer may fire *)
(* at its deadline or later, as the event loop allows.  cmHist is the      *)
(* history of browser events and of notifyListeners calls, in order.       *)
(***************************************************************************)
DebounceMs       == 1000
TicksPerSecond   == 2      \* clock resolution of the monitor machine
MaxMonitorTicks  == 4      \* clock ticks of the monitor machine
MaxMonitorEvents == 3      \* browser events delivered to the monitor

TickMs == DebounceMs \div TicksPerSecond

Callbacks == { "cb1", "cb2" }

\* One entry of the history: a browser event, or one call of notifyListeners
\* with the callbacks it invoked.
BrowserEvent(type, now)      == [ kind |-> "event", status |-> type, at |-> now, to |-> { } ]
Notification(status, now, to) == [ kind |-> "notify", status |-> status, at |-> now, to |-> to ]

\* notifyListeners(status): every registered callback is invoked; one that
\* throws is logged and the iteration goes on.
notifyListeners(status, now, listeners) == Notification(status, now, listeners)

\* notifyListenersDebounced: the timer after the call.
notifyListenersDebouncedKeepsTimer(timer, now) ==
    IF timer # None THEN timer ELSE Some(now + DebounceMs)

notifyListenersDebounced(timer, now) == Some(now + DebounceMs)

EventsSoFar == Cardinality({ i \in 1..Len(cmHist) : cmHist[i].kind = "event" })

MonitorInit ==
    /\ cmIsOnline \in BOOLEAN
    /\ cmListeners \in SUBSET Callbacks
    /\ cmTimer = None
    /\ cmNow = 0
    /\ cmHist = << >>

MonitorParked ==
    /\ cmIsOnline = FALSE
    /\ cmListeners = { }
    /\ cmTimer = None
    /\ cmNow = -1
    /\ cmHist = << >>

\* The browser fires 'online'.
handleOnline ==
    /\ cmNow >= 0
    /\ EventsSoFar < MaxMonitorEvents
    /\ cmIsOnline' = TRUE
    /\ cmTimer' = notifyListenersDebounced(cmTimer, cmNow)
    /\ cmHist' = Append(cmHist, BrowserEvent("online", cmNow))
    /\ UNCHANGED << cmListeners, cmNow >>
    /\ UNCHANGED notMonitor

\* The browser fires 'offline'.
handleOffline ==
    /\ cmNow >= 0
    /\ EventsSoFar < MaxMonitorEvents
    /\ cmIsOnline' = FALSE
    /\ cmHist' = cmHist \o << BrowserEvent("offline", cmNow),
                              notifyListeners("offline", cmNow, cmListeners) >>
    /\ UNCHANGED << cmListeners, cmTimer, cmNow >>
    /\ UNCHANGED notMonitor

\* The debounce timer's callback runs.
DebounceTimerFires ==
    /\ cmTimer # None
    /\ cmNow >= cmTimer[1]
    /\ cmHist' = Append(cmHist, notifyListeners("online", cmNow, cmListeners))
    /\ cmTimer' = None
    /\ UNCHANGED << cmIsOnline, cmListeners, cmNow >>
    /\ UNCHANGED notMonitor

addListener(callback) ==
    /\ cmNow >= 0
    /\ callback \notin cmListeners
    /\ cmListeners' = cmListeners \cup { callback }
    /\ UNCHANGED << cmIsOnline, cmTimer, cmNow, cmHist >>
    /\ UNCHANGED notMonitor

\* The function addListener returned is called.
removeListener(callback) ==
    /\ cmNow >= 0
    /\ callback \in cmListeners
    /\ cmListeners' = cmListeners \ { callback }
    /\ UNCHANGED << cmIsOnline, cmTimer, cmNow, cmHist >>
    /\ UNCHANGED notMonitor

MonitorTick ==
    /\ cmNow >= 0
    /\ cmNow < MaxMonitorTicks * TickMs
    /\ cmNow' = cmNow + TickMs
    /\ UNCHANGED << cmIsOnline, cmListeners, cmTimer, cmHist >>
    /\ UNCHANGED notMonitor

MonitorNext ==
    \/ handleOnline
    \/ handleOffline
    \/ DebounceTimerFires
    \/ \E callback \in Callbacks : addListener(callback)
    \/ \E callback \in Callbacks : removeListener(callback)
    \/ MonitorTick

(***************************************************************************)
(* Properties of retryWithBackoff.                                         *)
(***************************************************************************)
Failed(i)  == rThrown[i].kind = "error"
Succeeded(i) == rThrown[i].kind = "value"

\* C5: fn is invoked with attempt numbers 1, 2, ... in order and at most
\* maxRetries times; when the call has rejected (every attempt failed) fn was
\* invoked exactly maxRetries times; an attempt that succeeded is the last
\* invocation made.
C5_RetryCeiling ==
    /\ rCalls = [ i \in 1..Len(rCalls) |-> i ]
    /\ Len(rCalls) <= rMaxRetries
    /\ rPhase = "rejected" => Len(rCalls) = rMaxRetries
    /\ \A i \in 1..Len(rThrown) :
         Succeeded(i) => (i = Len(rCalls) /\ rPhase = "resolved")

\* Three attempts, each rejecting with a retryable error, and the call rejected.
C5_Witness ==
    /\ rPhase = "rejected"
    /\ rMaxRetries = 3
    /\ rCalls = << 1, 2, 3 >>
    /\ \A i \in 1..3 : Failed(i) /\ isRetryableError(rThrown[i].error)

\* C6 (as claimed): no invocation of fn follows an attempt that rejected with a
\* non-retryable error, for the bare function and for the remote-access wrappers.
C6_NonRetryableShortCircuits ==
    \A i \in 1..Len(rThrown) :
        (Failed(i) /\ ~isRetryableError(rThrown[i].error)) => Len(rCalls) = i

\* C8: the call settles exactly once; resolved, it carries the value of the first
\* attempt that succeeded; rejected after maxRetries >= 1 attempts, it carries the
\* very error object the last attempt threw; it never resolves when no attempt
\* succeeded.
C8_RetryOutcome ==
    /\ (rResult # None) <=> (rPhase \in { "resolved", "rejected" })
    /\ rPhase = "resolved" =>
         /\ Len(rThrown) = Len(rCalls)
         /\ Succeeded(Len(rThrown))
         /\ \A i \in 1..(Len(rThrown) - 1) : Failed(i)
         /\ rResult = Some([ kind |-> "value", value |-> rThrown[Len(rThrown)].value ])
    /\ (rPhase = "rejected" /\ rMaxRetries >= 1) =>
         /\ Len(rThrown) = rMaxRetries
         /\ \A i \in 1..rMaxRetries : Failed(i)
         /\ rResult = Some([ kind |-> "error",
                             error |-> Some(rThrown[rMaxRetries].error) ])

\* Rejected after three attempts whose errors differ.
C8_Witness ==
    /\ rPhase = "rejected"
    /\ rMaxRetries = 3
    /\ Len(rThrown) = 3
    /\ rThrown[1].error.message # rThrown[3].error.message
    /\ rResult[1].error[1].id = rThrown[3].error.id

(***************************************************************************)
(* Properties of promiseWithTimeout.                                       *)
(***************************************************************************)
\* C9: once the returned promise has settled no timer of the call is pending;
\* it settled either with the outcome of the wrapped promise (which settled
\* first, the timer then being cleared) or, the timer having fired first, as a
\* rejection carrying the given message; and it stays pending only while both
\* the wrapped promise and the timer are pending.
C9_TimeoutSettles ==
    tTimer # "parked" =>
      /\ tRace.state # "pending" =>
           \/ tTimer = "cleared" /\ tP.state # "pending" /\ tRace = tP
           \/ tTimer = "fired" /\ tRace = [ state |-> "rejected", value |-> tMessage ]
      /\ tRace.state = "pending" => (tP.state = "pending" /\ tTimer = "pending")

\* The wrapped promise won the race and the timeout has since passed.
C9_Witness ==
    /\ tTimer = "cleared"
    /\ tRace.state = "fulfilled"
    /\ tNow > tMs

(***************************************************************************)
(* Properties of the health-check circuit breaker.                         *)
(***************************************************************************)
\* C7 (as claimed): the breaker is open once three failures in a row are counted,
\* and no probe started after it opened and within ResetTime of that makes a
\* network call.
C7_OpenBreakerBlocksProbes ==
    /\ cb.failures >= Threshold => cb.isOpen
    /\ ~cbWindowCall

\* C20: the breaker state is kept per dependency: a storage probe is refused
\* without a network call only after Threshold failures in a row of the
\* storage probe itself (likewise the database probe), and the shared counter
\* never falls below a dependency's own failures in a row, which only that
\* dependency's success or a reset may clear.
C20_BreakerPerDependency ==
    /\ (cbLast.kind \in ProbeKinds /\ ~cbLast.network) =>
           cbOwnFailures[cbLast.kind] >= Threshold
    /\ \A k \in ProbeKinds : cbOwnFailures[k] <= cb.failures

(***************************************************************************)
(* Properties of analyzeResumeWithPerplexity.                              *)
(***************************************************************************)
AnalyzeEnded == aiPhase \in { "resolved", "rejected" }

\* The i-th request brought a message content.
Answered(i) == aiCalls[i].kind = "content"

\* The i-th request brought a content that JSON.parse takes.
Parsed(i) == Answered(i) /\ Parses(CleanContent(aiCalls[i].content))

\* The i-th request brought a content that fails JSON.parse or the check of
\* overall_score and categories.
BadContent(i) == Answered(i) /\ ~TryBody(aiCalls[i]).ok

HasKey(x) == x.t # "undefined"

\* C14: when the first attempt fails by a transport failure or by the 60 s
\* abort, analyze does not end before it has made its second request.
C14_RetryAfterTransportOrTimeout ==
    (/\ Len(aiCalls) >= 1
     /\ aiCalls[1].kind \in { "network", "abort" }
     /\ AnalyzeEnded) => Len(aiCalls) = MAX_RETRIES

\* C15, as stated: a content that fails parsing or the shape check ends the
\* call at once, its request being the last one.
C15_NoRetryOnBadContent ==
    \A i \in 1..Len(aiCalls) :
        BadContent(i) => (i = Len(aiCalls) /\ aiPhase = "rejected")

\* C15: a content that fails parsing or the shape check is handled as any
\* failure other than the abort: before attempt MAX_RETRIES analyze sleeps
\* 1000 * attempt ms and sends the next request, nothing being raised; on
\* attempt MAX_RETRIES it rejects with that attempt's error.
C15_BadContentRetriedUntilLast ==
    \A i \in 1..Len(aiCalls) :
        BadContent(i) =>
            IF i < MAX_RETRIES
            THEN i = Len(aiCalls) =>
                     /\ aiThrown = None
                     /\ \/ aiPhase = "sleeping" /\ aiAttempt = i /\ aiDelay = 1000 * i
                        \/ aiPhase = "fetching" /\ aiAttempt = i + 1
            ELSE /\ i = Len(aiCalls)
                 /\ aiPhase = "rejected"
                 /\ aiThrown = Some(TryBody(aiCalls[i]).error)

C15_Witness ==
    /\ Len(aiCalls) = 2
    /\ BadContent(1) /\ TryBody(aiCalls[1]).error = StructureError
    /\ BadContent(2) /\ TryBody(aiCalls[2]).error = ParseError
    /\ aiThrown = Some(ParseError)

AllMalformed ==
    /\ Len(aiCalls) >= 1
    /\ \A i \in 1..Len(aiCalls) : Answered(i) /\ ~Parsed(i)

\* C16: when every answer of the endpoint is malformed, analyze makes no more
\* than MAX_RETRIES requests and ends only after the MAX_RETRIES-th, rejecting
\* with the parse error; STEP 5 then assigns the fallback literal to feedback
\* and goes on to STEP 6, and the run fails only if updateFeedback rejects.
C16_MalformedEndsComplete ==
    AllMalformed =>
        /\ Len(aiCalls) <= MAX_RETRIES
        /\ AnalyzeEnded =>
               /\ Len(aiCalls) = MAX_RETRIES
               /\ aiPhase = "rejected"
               /\ aiThrown = Some(ParseError)
        /\ aiStep \in { "saving", "complete", "failed" } =>
               /\ AnalyzeEnded
               /\ aiFeedback = Some(FallbackAnalysis)
               /\ (aiStep = "failed" => aiUpdateRaised)

C16_Witness ==
    /\ AllMalformed
    /\ Len(aiCalls) = 2
    /\ aiStep = "complete"
    /\ aiFeedback = Some(FallbackAnalysis)

\* C17: a parsed answer is accepted (analyze resolves with it) exactly when it
\* has the overall_score key and the categories key.
C17_AcceptedIffBothKeys ==
    \A i \in 1..Len(aiCalls) :
        Parsed(i) =>
            ((i = Len(aiCalls) /\ aiPhase = "resolved")
                <=> (/\ HasKey(aiCalls[i].content.value.overall_score)
                     /\ HasKey(aiCalls[i].content.value.categories)))

(***************************************************************************)
(* Properties of the deletion of a resume.                                 *)
(***************************************************************************)
SvcFilesIssued == { k \in BlobKinds : dFiles["svc", k] # "none" }

\* What holds of delete(id) in every state.
DeleteOrder ==
    /\ dSvc \in { "rowDelete", "resolved" } => dResume # None
    /\ dSvc \in { "idle", "read" } => dResume = None
    /\ SvcFilesIssued # { } =>
           /\ dSvc = "resolved"
           /\ dRow = None
           /\ SvcFilesIssued = KindsNamed(dResume[1])
    /\ dSvc = "resolved" => (dRow = None /\ SvcFilesIssued = KindsNamed(dResume[1]))
    /\ dSvc = "rejected" => SvcFilesIssued = { }

\* C21: delete(id) reads the record, then deletes the row, and only when the
\* row deletion succeeded starts the deletion of the blobs the record names,
\* without awaiting them; once resolved it stays resolved whatever the blob
\* deletions come to, and a failed read or row deletion starts no blob
\* deletion.
C21_DeleteRowThenBlobs ==
    [][ /\ DeleteOrder'
        /\ dRow' # dRow => dSvc = "rowDelete"
        /\ (dSvc = "read" /\ dSvc' # "read") =>
               (dSvc' \in { "rowDelete", "rejected" } /\ dRow' = dRow)
        /\ dSvc = "resolved" => dSvc' = "resolved"
        /\ dSvc = "rejected" => dSvc' = "rejected" ]_vars

C21_Witness ==
    /\ dCaller = "direct"
    /\ dSvc = "resolved"
    /\ dFiles["svc", "pdf"] = "failed"
    /\ dFiles["svc", "image"] = "pending"

\* C28: cleanupFailedUpload(state) never rejects; before it awaits it has
\* started one deleteFile per entry of state.filesUploaded and delete(id) iff
\* dbRecordCreated (and resumeId); it resolves only when all of them have
\* settled, whichever of them failed, and does resolve then.
C28_CleanupSettlesAll ==
    dCaller = "cleanup" =>
        /\ dCleanup \in { "idle", "awaiting", "resolved" }
        /\ dCleanup # "idle" =>
               /\ \A k \in BlobKinds :
                      dFiles["cleanup", k] # "none" <=> BlobOf(k) \in FilesOf(dState)
               /\ dSvc # "idle" <=> (dState.dbRecordCreated /\ dState.resumeId # None)
        /\ dCleanup = "resolved" =>
               /\ \A k \in BlobKinds : dFiles["cleanup", k] # "pending"
               /\ dSvc \notin { "read", "rowDelete" }
        /\ dCleanup = "awaiting" =>
               \/ \E k \in BlobKinds : dFiles["cleanup", k] = "pending"
               \/ dSvc \in { "read", "rowDelete" }

C28_Witness ==
    /\ dCaller = "cleanup"
    /\ dCleanup = "resolved"
    /\ dSvc = "rejected"
    /\ dFiles["cleanup", "pdf"] = "failed"
    /\ dFiles["cleanup", "image"] = "failed"

\* C30: in the card's delete a blob deletion that fails does not keep the row
\* from being deleted (the handler ends with the row still there only when
\* delete(id) rejected), and a row whose deletion failed has lost none of its
\* blobs to the handler.
C30_CardBlobsBestEffort ==
    dCaller = "card" =>
        /\ (dCardPc = "alert" /\ dRow # None) => dSvc = "rejected"
        /\ (dSvc = "rejected" /\ dRow # None) =>
               \A k \in KindsNamed(dRow[1]) : dFiles["card", k] # "ok"

(***************************************************************************)
(* Properties of the Upload view.                                          *)
(***************************************************************************)
Ended(a) == run[a].pc \in { "cancelled", "failed", "complete" }

StoredBy(a) == { b \in blobs : b.path[1] = a }

\* The shape of the placeholder: overall_score 0, a tip in every category.
Degraded(fb) ==
    /\ fb.overall_score = 0
    /\ \A c \in Categories : fb.categories[c].tips >= 1

\* C1: after handleCancel on a run that had stored a blob, once the run has
\* ended and no delete that was issued failed, no blob of the run is stored and
\* there is no row with its resumeId.
C1_CancelLeavesNothing ==
    \A a \in Attempts :
        ( /\ hist[a].cancelFired
          /\ hist[a].cancelStored
          /\ Ended(a)
          /\ pendingDeletes = { }
          /\ ~hist[a].delFailed )
        => ( StoredBy(a) = { } /\ rows[a] = None )

\* C2: when create succeeded, updateFeedback raised and cleanupFailedUpload has
\* finished without a failed delete, the row of the run is gone and so is every
\* blob of its filesUploaded list.
C2_RollbackAfterUpdateFailure ==
    \A a \in Attempts :
        ( /\ hist[a].createOk
          /\ hist[a].updateRaised
          /\ hist[a].cleanupDone
          /\ ~hist[a].delFailed )
        => ( /\ rows[a] = None
             /\ \A f \in FilesOf(run[a].cs) : f \notin blobs )

C2_Witness ==
    \E a \in Attempts :
        /\ hist[a].createOk /\ hist[a].updateRaised
        /\ hist[a].cleanupDone /\ ~hist[a].delFailed
        /\ Len(run[a].cs.filesUploaded) = 2
        /\ rows[a] = None

\* C3: when the analysis raised there is no rollback: updateFeedback is called
\* for the run's resumeId with a feedback whose overall_score is 0 and whose
\* categories each have a tip, and the run is Complete once that update has
\* succeeded, the row carrying that feedback.
C3_AiFailureDegrades ==
    \A a \in Attempts :
        hist[a].aiRaised =>
            /\ ~hist[a].updateRaised => run[a].pc \in { "update", "complete" }
            /\ run[a].pc = "update" =>
                   run[a].feedback # None /\ Degraded(run[a].feedback[1])
            /\ run[a].pc = "complete" =>
                   /\ rows[a] # None
                   /\ rows[a][1].feedback # None
                   /\ Degraded(rows[a][1].feedback[1])
                   /\ rows[a][1].overall_score = Some(0)

C3_Witness ==
    \E a \in Attempts :
        /\ hist[a].aiRaised
        /\ run[a].pc = "complete"
        /\ rows[a] # None
        /\ rows[a][1].overall_score = Some(0)

\* C4: when the preview step raised (the rendering or the upload of the
\* preview), the record is created with image_path null: the path handed to
\* create is null and so is the image_path of the row, up to Complete.
C4_PreviewFailureNullImagePath ==
    \A a \in Attempts :
        hist[a].previewRaised # "none" =>
            /\ run[a].pc = "create" => run[a].imagePath = None
            /\ rows[a] # None => rows[a][1].image_path = None

\* C10: once handleCancel has aborted the controller of a run in flight, the run
\* starts no remote write, changes nothing of the view, shows no error, does not
\* reach Complete and does not redirect.
C10_CancelGoesToCleanup ==
    \A a \in Attempts : hist[a].afterCancel = { }

\* C11: on a mounted view at most one run of handleAnalyze is in flight: no run
\* is started while an earlier one has not ended.
C11_AtMostOneInFlight ==
    Cardinality({ a \in Attempts : run[a].pc \in InFlight }) <= 1

\* C12: a run that ended failed or cancelled (by the user, by the stuck timer or
\* by the unmount of the view) after it had stored a blob or created its record
\* has had cleanupFailedUpload run on what it stored.
C12_EveryEndGetsCleanup ==
    \A a \in Attempts :
        ( /\ run[a].pc \in { "failed", "cancelled" }
          /\ (run[a].cs.filesUploaded # << >> \/ run[a].cs.dbRecordCreated) )
        => hist[a].cleanupDone

\* C13: when resumeService.create raised, the run goes to cleanup and ends
\* failed, never reaching the analysis or the feedback update (no feedback
\* anywhere); once it has ended and no delete failed, neither the PDF blob nor
\* the preview blob of the run is stored.
C13_CreateFailureRollsBack ==
    \A a \in Attempts :
        hist[a].createRaised =>
            /\ run[a].pc \in { "cleanup", "failed" }
            /\ run[a].feedback = None
            /\ rows[a] # None => rows[a][1].feedback = None
            /\ ~hist[a].aiRaised /\ ~hist[a].updateRaised
            /\ (run[a].pc = "failed" /\ ~hist[a].delFailed) =>
                   (hist[a].cleanupDone /\ StoredBy(a) = { })

C13_Witness ==
    \E a \in Attempts :
        /\ hist[a].createRaised
        /\ run[a].pc = "failed"
        /\ Len(run[a].cs.filesUploaded) = 2
        /\ ~hist[a].delFailed
        /\ StoredBy(a) = { }

\* C18: when the stuck timer fires at step 0 the view is advanced to step 1 with
\* no error and no cancellation; when it fires at another step the run in
\* flight is cancelled, a delete is issued for every blob it stored, and the
\* view shows 'Upload appears stuck at step N' once the handler has finished.
C18_StuckTimerOutcome ==
    [][ StuckTimerFires =>
          IF view.currentStep = 0
          THEN /\ view'.currentStep = 1
               /\ view'.error = view.error
               /\ aborted' = aborted
          ELSE /\ view'.error = StuckText(view.currentStep)
               /\ controllerRef # None =>
                      /\ aborted'[controllerRef[1]]
                      /\ StoredBy(controllerRef[1]) \subseteq pendingDeletes' ]_vars

\* C19: whatever the pre-flight probe came to, the run leaves STEP 0 for the
\* text extraction unless the cancellation signal it polls (that of the
\* controller the view holds at that moment) is aborted; it never leaves
\* STEP 0 for the cleanup or as failed.
C19_PreflightNeverFatal ==
    [][ \A a \in Attempts :
          (run[a].pc = "preflight" /\ run'[a].pc # "preflight") =>
              /\ run'[a].pc \in { "extract", "cancelled" }
              /\ ~SignalAborted(controllerRef, aborted) =>
                     (run'[a].pc = "extract" /\ run'[a].health \in PreflightOutcomes) ]_vars

C19_Witness ==
    \E a \in Attempts, b \in Attempts :
        /\ run[a].pc = "extract" /\ run[a].health = "rejected"
        /\ run[b].pc = "extract" /\ run[b].health = "timeout"

\* C25: over the update/increment/complete calls of one run the tracker's step
\* never goes down: every call before the last leaves it as it was or one
\* higher, and complete leaves it at TotalSteps, not below what it was.
C25_StepNeverLowered ==
    [][ \A a \in Attempts :
          (run[a].pc \in InFlight /\ run'[a].pc \in InFlight \cup { "complete" }) =>
              /\ run'[a].step >= run[a].step
              /\ run'[a].pc # "complete" => run'[a].step <= run[a].step + 2
              /\ run'[a].pc = "complete" => run'[a].step = TotalSteps ]_vars

\* The place of a stage in the pipeline.
StageRank(pc) ==
    CASE pc = "preflight"   -> 0
      [] pc = "extract"     -> 1
      [] pc = "uploadPdf"   -> 2
      [] pc = "convert"     -> 3
      [] pc = "uploadImage" -> 4
      [] pc = "create"      -> 5
      [] pc = "analyze"     -> 6
      [] pc = "update"      -> 7
      [] pc = "complete"    -> 8
      [] OTHER              -> 9

Stages == (InFlight \ { "cleanup" }) \cup { "complete" }

\* The PDF upload of run a has succeeded.
PdfUploaded(a) ==
    run[a].cs.pdfPath = Some(PdfPathOf(a).path) /\ PdfPathOf(a) \in FilesOf(run[a].cs)

\* What each stage of run a presupposes.
StageOrder(a) ==
    /\ run[a].pc \in { "create", "analyze", "update" } => PdfUploaded(a)
    /\ (hist[a].createOk \/ rows[a] # None) => run[a].cs.pdfPath = Some(PdfPathOf(a).path)
    /\ run[a].pc \in { "analyze", "update" } => hist[a].createOk
    /\ run[a].pc = "update" => run[a].feedback # None
    /\ run[a].feedback # None => hist[a].createOk
    /\ (\/ lastSuccessfulUpload = Some(a)
        \/ << "resume", a >> \in redirectTimers
        \/ navigated = Some(<< "resume", a >>)) =>
           /\ run[a].pc = "complete"
           /\ ~hist[a].updateRaised
           /\ rows[a] # None
           /\ rows[a][1].feedback # None

\* C26: the stages of a run follow each other in the pipeline's order, never
\* backwards; the record is created only after the PDF upload succeeded, the AI
\* call is made only after the record was created, updateFeedback is called
\* only with the analysis or the placeholder at hand, and the marker and the
\* redirect exist only after updateFeedback succeeded.
C26_StagesInOrder ==
    [][ \A a \in Attempts :
          /\ (run[a].pc \in Stages /\ run'[a].pc \in Stages) =>
                 StageRank(run'[a].pc) >= StageRank(run[a].pc)
          /\ StageOrder(a)' ]_vars

C26_Witness ==
    \E a \in Attempts :
        /\ run[a].pc = "complete"
        /\ hist[a].aiRaised
        /\ lastSuccessfulUpload = Some(a)
        /\ << "resume", a >> \in redirectTimers

\* C27: when the text extraction raises or yields too short a text, the run
\* ends failed in that very step: no blob was uploaded, no record created, no
\* AI call made, and the rollback has nothing to delete (filesUploaded empty,
\* dbRecordCreated false), so no delete is issued.
C27_ExtractFailureIsClean ==
    [][ \A a \in Attempts :
          (run[a].pc = "extract" /\ run'[a].pc \notin { "extract", "uploadPdf", "cancelled" }) =>
              /\ run'[a].pc = "failed"
              /\ run'[a].cs.filesUploaded = << >>
              /\ ~run'[a].cs.dbRecordCreated
              /\ ~HasCleanupTasks(run'[a].cs)
              /\ run[a].feedback = None /\ ~hist'[a].createOk /\ ~hist'[a].aiRaised
              /\ StoredBy(a) = { } /\ rows[a] = None
              /\ blobs' = blobs /\ rows' = rows /\ pendingDeletes' = pendingDeletes ]_vars

C27_Witness ==
    \E a \in Attempts :
        /\ run[a].pc = "failed"
        /\ run[a].cs = NewTransaction(a)
        /\ view.error = ErrorText(ExtractShort)
        /\ ~view.isProcessing

(***************************************************************************)
(* Properties of storageService.uploadFile (checked under SpecUploadFile). *)
(***************************************************************************)
UploadCallsMade == Cardinality({ i \in 1..Len(ufCalls) : ufCalls[i] = "upload" })

FileMissingOrEmpty == ufFile = None \/ ufFile[1].size = 0

FileOverCeiling == ufFile # None /\ ufFile[1].size > MaxFileSize

\* C22: a missing file, an empty file (size 0) or a file over the 50 MB
\* ceiling makes uploadFile reject with the terminal INVALID_FILE /
\* FILE_TOO_LARGE error before any network call (no health probe, no
\* upload) and without any attempt or retry; no other file is rejected
\* with these codes.
C22_InvalidFileRejectedOffline ==
    /\ (ufPc \notin { "called", "parked" } /\ (FileMissingOrEmpty \/ FileOverCeiling)) =>
           /\ ufPc = "rejected"
           /\ ufCalls = << >>
           /\ ufAttempt = 0
           /\ ufThrown = << >>
           /\ ufResult # None
           /\ ufResult[1].code =
                  IF FileMissingOrEmpty THEN "INVALID_FILE" ELSE "FILE_TOO_LARGE"
    /\ (ufResult # None /\ ufResult[1].code \in { "INVALID_FILE", "FILE_TOO_LARGE" }) =>
           (FileMissingOrEmpty \/ FileOverCeiling)

C22_Witness ==
    /\ ufPc = "rejected"
    /\ ufFile = Some([ size |-> MaxFileSize + 1 ])
    /\ ~ufOptions.skipHealthCheck
    /\ ufResult # None /\ ufResult[1].code = "FILE_TOO_LARGE"
    /\ ufCalls = << >>

\* C23: an attempt of uploadFile that fails with the already-exists error
\* (FILE_EXISTS), a permission-denied error or an authentication error is
\* never retried: no upload call follows the failed one (exactly one call
\* when the first attempt failed so), uploadFile is rejected, and with that
\* very error.
C23_ListedErrorsNotRetried ==
    \A i \in 1..Len(ufThrown) :
        DontRetry(ufThrown[i]) =>
            /\ UploadCallsMade = i
            /\ ufPc = "rejected"
            /\ ufResult = Some(ufThrown[i])

(***************************************************************************)
(* Properties of connectionMonitor (checked under SpecMonitor).            *)
(***************************************************************************)
IsEvent(i, type)    == cmHist[i].kind = "event" /\ cmHist[i].status = type
IsNotify(i, status) == cmHist[i].kind = "notify" /\ cmHist[i].status = status

\* No 'online' event and no 'online' notification strictly between i and j.
QuietBetween(i, j) ==
    \A k \in (i + 1)..(j - 1) : ~IsEvent(k, "online") /\ ~IsNotify(k, "online")

\* C24: 'online' notifications are debounced and 'offline' ones are not.
\* Every 'online' notification comes at least one second after the last
\* 'online' event before it, with no other 'online' notification since that
\* event; two 'online' events less than a second apart have no 'online'
\* notification between them; the last 'online' event is followed by at
\* most one notification, and by exactly one once no timer is pending; so a
\* burst delivers exactly one notification, after its last event.  Every
\* 'offline' event is followed at once by its notification to every
\* registered listener.
C24_OnlineDebounced ==
    /\ \A j \in 1..Len(cmHist) :
         IsNotify(j, "online") =>
             \E i \in 1..(j - 1) :
                 /\ IsEvent(i, "online")
                 /\ QuietBetween(i, j)
                 /\ cmHist[j].at >= cmHist[i].at + DebounceMs
    /\ \A i \in 1..Len(cmHist), k \in 1..Len(cmHist) :
         (/\ i < k /\ IsEvent(i, "online") /\ IsEvent(k, "online")
          /\ cmHist[k].at < cmHist[i].at + DebounceMs) =>
             \A j \in (i + 1)..(k - 1) : ~IsNotify(j, "online")
    /\ \A i \in 1..Len(cmHist) :
         (IsEvent(i, "online") /\ \A k \in (i + 1)..Len(cmHist) : ~IsEvent(k, "online")) =>
             LET after == { j \in (i + 1)..Len(cmHist) : IsNotify(j, "online") } IN
               /\ Cardinality(after) <= 1
               /\ (after = { }) <=> (cmTimer # None)
               /\ cmTimer # None => cmTimer[1] = cmHist[i].at + DebounceMs
    /\ \A i \in 1..Len(cmHist) :
         IsEvent(i, "offline") =>
             /\ i < Len(cmHist)
             /\ IsNotify(i + 1, "offline")
             /\ cmHist[i + 1].at = cmHist[i].at

\* A burst of two 'online' events half a second apart, with an 'offline'
\* in the history, has been notified once to both listeners.
C24_Witness ==
    \E i, k, j \in 1..Len(cmHist) :
        /\ i < k /\ k < j
        /\ IsEvent(i, "online") /\ IsEvent(k, "online") /\ IsNotify(j, "online")
        /\ cmHist[k].at > cmHist[i].at
        /\ cmHist[k].at < cmHist[i].at + DebounceMs
        /\ cmHist[j].to = Callbacks
        /\ \E o \in 1..Len(cmHist) : IsEvent(o, "offline")
        /\ cmTimer = None

C32_StepWithinTotal ==
    /\ \A a \in Attempts : run[a].step \in 0..TotalSteps
    /\ view.currentStep \in 0..TotalSteps
    /\ view.progress \in 0..100

\* The index the timeout table of the stuck detection gives to the stage a
\* run is in (its comments: 0 pre-flight checks, 1 text extraction, 2 PDF
\* upload, 3 image conversion, 4 database record, 5 AI analysis, 6 save
\* results).
TableIndexOf(pc) ==
    CASE pc = "preflight"   -> 0
      [] pc = "extract"     -> 1
      [] pc = "uploadPdf"   -> 2
      [] pc = "convert"     -> 3
      [] pc = "uploadImage" -> 3
      [] pc = "create"      -> 4
      [] pc = "analyze"     -> 5
      [] pc = "update"      -> 6

\* The stages that await a remote call.
RemoteStages == { "preflight", "uploadPdf", "uploadImage", "create", "analyze", "update" }

\* C33: while the remote call of a stage is in flight and the view shows the
\* step the run reported, currentStep is the index the stuck-detection
\* table assigns to that stage, so the timer armed is that stage's: four
\* minutes during the PDF upload, 30 s during the record creation, two
\* minutes during the AI analysis.
C33_StepIsTableIndex ==
    \A a \in Attempts :
        (/\ run[a].pc \in RemoteStages
         /\ mounted /\ view.isProcessing
         /\ view.currentStep = run[a].step) =>
            /\ view.currentStep = TableIndexOf(run[a].pc)
            /\ getStepTimeout(view.currentStep) = getStepTimeout(TableIndexOf(run[a].pc))

\* C34: whenever a resume record is created with a non-null image_path, that
\* path is in the transaction's filesUploaded list and the preview blob it
\* names is stored.
C34_ImagePathWasUploaded ==
    [][ \A a \in Attempts :
          (rows[a] = None /\ rows'[a] # None /\ rows'[a][1].image_path # None) =>
              /\ \E f \in FilesOf(run'[a].cs) : f.path = rows'[a][1].image_path[1]
              /\ \E f \in blobs' : f.path = rows'[a][1].image_path[1] ]_vars

(***************************************************************************)
(* Properties of uploadControllerRef (checked under Spec).                 *)
(***************************************************************************)
\* The handle is the controller of every run in flight.
ControllerIsOwn == \A a \in Attempts : run[a].pc \in InFlight => controllerRef = Some(a)

\* A run that ends leaves alone the handle of another run still in flight.
EndKeepsLaterHandle ==
    \A a, b \in Attempts :
        (/\ a # b
         /\ run[a].pc \in InFlight /\ run'[a].pc \notin InFlight
         /\ run[b].pc \in InFlight /\ controllerRef = Some(b)) =>
            controllerRef' = Some(b)

\* C35: while a run of handleAnalyze is in flight, uploadControllerRef.current
\* is the AbortController created for that run (so its step boundaries read
\* its own signal), and the finally block of an earlier run never clears or
\* replaces the handle of a later run.
C35_HandleBelongsToRun ==
    [][ ControllerIsOwn' /\ EndKeepsLaterHandle ]_vars

(***************************************************************************)
(* Properties of the circuit breaker's fields (checked under SpecBreaker). *)
(***************************************************************************)
\* C36: in every reachable state of the health-check circuit breaker, under
\* any interleaving of testConnection, testStorageConnection,
\* testAllConnections and resetCircuitBreaker, isOpen is true if and only if
\* failures >= threshold, and failures > 0 implies lastFailure is non-null.
C36_OpenIffThreshold ==
    /\ cb.isOpen <=> cb.failures >= Threshold
    /\ cb.failures > 0 => cb.lastFailure # None

\* The circuit has opened at the threshold while another probe, started
\* before it opened, is still in flight.
C36_Witness ==
    /\ cb.isOpen
    /\ cb.failures >= Threshold
    /\ InflightTotal(cbInflight) > 0
    /\ cbNow > 0

\* The last entry of the history is an 'online' notification just delivered
\* to some listener.
OnlineJustNotified ==
    /\ Len(cmHist') = Len(cmHist) + 1
    /\ cmHist'[Len(cmHist')].kind = "notify"
    /\ cmHist'[Len(cmHist')].status = "online"
    /\ cmHist'[Len(cmHist')].to # { }

\* C37: whenever connectionMonitor delivers an 'online' notification,
\* isOnline is true at that moment, and the last browser event before the
\* notification is an 'online' event: no 'online' notification follows an
\* 'offline' event unless a newer 'online' event has occurred since.
C37_OnlineOnlyWhileOnline ==
    [][ OnlineJustNotified =>
          /\ cmIsOnline
          /\ \A i \in 1..Len(cmHist) :
                IsEvent(i, "offline") =>
                    \E k \in (i + 1)..Len(cmHist) : IsEvent(k, "online") ]_vars

(***************************************************************************)
(* Properties of a failed record creation (checked under Spec).            *)
(***************************************************************************)
\* C38: when resumeService.create raised to handleAnalyze (dbRecordCreated
\* stays false) and the cleanup has finished, no row with the run's resumeId
\* exists, whatever the insert attempts did, an insert that timed out on the
\* client but was applied by the server included.
C38_NoRowAfterCreateFailure ==
    \A a \in Attempts :
        (hist[a].createRaised /\ run[a].pc = "failed") =>
            /\ ~run[a].cs.dbRecordCreated
            /\ rows[a] = None

(***************************************************************************)
(* Termination of handleAnalyze (checked under SpecLive: every awaited     *)
(* call eventually resolves, rejects or times out).                        *)
(***************************************************************************)
\* A run that has ended stays as it ended.
EndIsFinal == \A a \in Attempts : Ended(a) => run'[a].pc = run[a].pc

\* A run that ends failed on a mounted view leaves the form ready.
FailedLeavesFormReady ==
    \A a \in Attempts :
        (~Ended(a) /\ run'[a].pc = "failed" /\ mounted) =>
            /\ ~view'.isProcessing
            /\ view'.currentStep = 0
            /\ view'.progress = 0
            /\ view'.error # ""

InitRetry   == RetryInit /\ TimeoutParked /\ BreakerParked /\ UploadInit /\ AnalyzeParked /\ DeleteParked /\ UploadFileParked /\ MonitorParked
InitTimeout == TimeoutInit /\ RetryParked /\ BreakerParked /\ UploadInit /\ AnalyzeParked /\ DeleteParked /\ UploadFileParked /\ MonitorParked
InitBreaker == BreakerInit /\ RetryParked /\ TimeoutParked /\ UploadInit /\ AnalyzeParked /\ DeleteParked /\ UploadFileParked /\ MonitorParked
InitAnalyze == AnalyzeInit /\ RetryParked /\ TimeoutParked /\ BreakerParked /\ UploadInit /\ DeleteParked /\ UploadFileParked /\ MonitorParked
InitDelete ==
    DeleteInit /\ RetryParked /\ TimeoutParked /\ BreakerParked /\ AnalyzeParked /\ UploadInit /\ UploadFileParked /\ MonitorParked
InitUploadFile ==
    UploadFileInit /\ RetryParked /\ TimeoutParked /\ BreakerParked /\ AnalyzeParked /\ DeleteParked /\ UploadInit /\ MonitorParked
InitMonitor ==
    MonitorInit /\ RetryParked /\ TimeoutParked /\ BreakerParked /\ AnalyzeParked /\ DeleteParked /\ UploadFileParked /\ UploadInit
Init        == UploadInit /\ RetryParked /\ TimeoutParked /\ BreakerParked /\ AnalyzeParked /\ DeleteParked /\ UploadFileParked /\ MonitorParked

Next == UploadNext

SpecRetry   == InitRetry /\ [][RetryNext]_vars
SpecTimeout == InitTimeout /\ [][TimeoutNext]_vars
SpecBreaker == InitBreaker /\ [][BreakerNext]_vars
SpecAnalyze == InitAnalyze /\ [][AnalyzeNext]_vars
SpecDelete == InitDelete /\ [][DeleteNext]_vars
SpecUploadFile == InitUploadFile /\ [][UploadFileNext]_vars
SpecMonitor == InitMonitor /\ [][MonitorNext]_vars
Spec        == Init /\ [][Next]_vars

\* Every awaited call of handleAnalyze eventually settles.
CallsSettle ==
    /\ WF_vars(PreflightSettles)
    /\ WF_vars(ExtractSettles)
    /\ WF_vars(UploadPdfSettles)
    /\ WF_vars(ConvertSettles)
    /\ WF_vars(UploadImageSettles)
    /\ WF_vars(CreateSettles)
    /\ WF_vars(AnalyzeSettles)
    /\ WF_vars(UpdateSettles)
    /\ WF_vars(CleanupSettles)

\* The steps of SpecLive: those of Spec, the form being submitted again only
\* when no earlier run is still in flight.
NoRunInFlight == \A b \in Attempts : run[b].pc \notin InFlight

LiveNext ==
    \/ NoRunInFlight /\ Submit
    \/ PreflightSettles
    \/ ExtractSettles
    \/ UploadPdfSettles
    \/ ConvertSettles
    \/ UploadImageSettles
    \/ CreateSettles
    \/ AnalyzeSettles
    \/ UpdateSettles
    \/ CleanupSettles
    \/ BlobDeleteSettles
    \/ HandleCancel
    \/ StuckTimerFires
    \/ Unmount
    \/ RedirectTimerFires

SpecLive    == Init /\ [][LiveNext]_vars /\ CallsSettle

====
